---- MODULE Spec2Model ----
(***************************************************************************)
(* Model of the puppy dashboard (src/src/PuppyDashboard.js): the daily log *)
(* kept in the "puppyData" collection, the resolution of a selected date   *)
(* to a document, the add / edit / delete / reset handlers, the history    *)
(* catalog and the day rollover with its archival step.                    *)
(*                                                                         *)
(* Time.  An instant (a JavaScript Date, or its ISO string) is an integer  *)
(* number of whole hours since the model's epoch, in UTC.  tz is the local *)
(* zone's offset in hours (local time = UTC + tz).  A calendar date - a    *)
(* toDateString() value or a YYYY-MM-DD key - is a day number; the two     *)
(* renderings differ in the zone they are taken in, which is what the      *)
(* conversions below keep.                                                 *)
(*                                                                         *)
(* Handlers are atomic: one action is the whole handler with the reads,    *)
(* writes and the refresh it issues, completed in the order issued.        *)
(***************************************************************************)
EXTENDS Integers, Sequences, FiniteSets, TLC

VARIABLES
    now,             \* the wall clock, new Date()
    tz,              \* offset of the local time zone, fixed during a run
    store,           \* the collection: document key -> {walks, meals, snacks}
    selectedDate,    \* useState selectedDate (an instant)
    isHistoryMode,   \* useState isHistoryMode
    editMode,        \* useState editMode
    walks,           \* useState walks   (the displayed list)
    meals,           \* useState meals
    snacks,          \* useState snacks
    availableDates,  \* useState availableDates: [isNull, list]
    lastVisibleDate, \* useState lastVisibleDate: a key or NullKey
    hasMoreHistory,  \* useState hasMoreHistory
    lastDay,         \* the day-change effect's closure variable lastDay
    listeners,       \* the live snapshot listeners: the key each is attached to
    weatherData,     \* useState weatherData
    inFlight,        \* the asynchronous calls issued and not yet completed
    mounted,         \* the component is mounted
    timers,          \* the clock and day-change intervals and the pending render
    lastOp           \* history: the handler that ran last, with what it saw

vars == <<now, tz, store, selectedDate, isHistoryMode, editMode, walks, meals,
          snacks, availableDates, lastVisibleDate, hasMoreHistory, lastDay,
          listeners, weatherData, inFlight, mounted, timers, lastOp>>

----------------------------------------------------------------------------
(* Bounds of the model *)

\* Clock ticks (hours) after the start of a run.
MaxTicks == 3
\* Clock ticks in the runs of the three logs together (SpecEntries).
MaxEntryTicks == 1
\* Days before the start of a run that a user goes back to in the catalog.
MaxBack == 1
\* Dated documents the collection holds when a catalog run starts.
MaxDocs == 30
\* Entries held by the whole collection while the prompts are exercised.
MaxPrompted == 1
\* Meals and snacks held by 'main' while their order is followed.
MaxOrdered == 3
\* Walk entries of the lists handed to sortByTime.
MaxSorted == 3
\* Walk entries held by the whole collection.
MaxWalks == 2
\* Entries of all kinds held by the whole collection.
MaxEntries == 2

(* Program constants *)

HoursPerDay == 24
\* isWalkDue: hours >= 3
WalkIntervalHours == 3
\* loadHistoryDates: historyLimit
historyLimit == 15
\* setInterval(..., 100) of the clock effect, in milliseconds
ClockIntervalMs == 100
\* setInterval(..., 10000) of the day-change effect, in milliseconds
DayCheckIntervalMs == 10000
\* The key 'main'.  Keys are compared as strings by the catalog query and
\* "main" sorts after every YYYY-MM-DD key; day numbers stay below it.
mainKey == 1000
\* null in lastVisibleDate
NullKey == 0 - 1

\* Offsets of the local zone (hours east of UTC).
TzOffsets == {0 - 1, 0, 1}
\* The local day and hour at which a run starts.
StartDay == 40
StartHour == HoursPerDay - MaxTicks
\* Hours a user types into a custom-time prompt (HH of HH:mm:ss).
CustomHours == {1, 23}
\* Weights, snack types and quantities a user types into the prompts.
Weights == {500, 750}
\* The weight typed when a meal is added.
AddedWeights == {500}
SnackTypes == {"biscuit"}
Quantities == {2}

----------------------------------------------------------------------------
(* Date conversions *)

\* date.toDateString(): the calendar date in the local zone.
toDateString(t) == (t + tz) \div HoursPerDay

\* date.toISOString().split('T')[0]: the calendar date in UTC.
toISODate(t) == t \div HoursPerDay

\* new Date(d) of a toDateString() value: local midnight of that date.
parseDateString(d) == d * HoursPerDay - tz

\* new Date(docId) of a YYYY-MM-DD key: UTC midnight of that date.
parseISODate(k) == k * HoursPerDay

\* date.getDate(): the day of the month, local (runs stay within a month).
getDate(t) == toDateString(t)

\* new Date(y, m, d, h, 0, 0) with y, m, d the local date of t.
localDateAtHour(t, h) == toDateString(t) * HoursPerDay + h - tz

\* d.setDate(d.getDate() - 1): the same local time one day earlier.
minusOneDay(t) == t - HoursPerDay

todayStr == toDateString(now)
yesterdayStr == toDateString(minusOneDay(now))

----------------------------------------------------------------------------
(* Entries and sortByTime *)

\* isNaN(new Date(time).getTime()): an unparsable time is a negative number.
isNaN(t) == t < 0

\* The comparator of sortByTime.  timeB is computed from ta, not tb; a NaN
\* result (ta unparsable, tb valid) counts as +0 in Array.prototype.sort.
compareFn(a, b) ==
    LET timeA == IF isNaN(a.time) THEN 0 ELSE a.time
    IN  IF isNaN(b.time) THEN timeA - 0
        ELSE IF isNaN(a.time) THEN 0
        ELSE timeA - a.time

InsertAt(s, pos, x) == SubSeq(s, 1, pos) \o <<x>> \o SubSeq(s, pos + 1, Len(s))

\* Binary insertion as Array.prototype.sort does it for short arrays: the
\* place of pivot among s[left+1 .. right], after its equals.
RECURSIVE BinarySearch(_, _, _, _)
BinarySearch(s, pivot, left, right) ==
    IF left >= right THEN left
    ELSE LET mid == left + ((right - left) \div 2)
         IN  IF compareFn(pivot, s[mid + 1]) < 0
             THEN BinarySearch(s, pivot, left, mid)
             ELSE BinarySearch(s, pivot, mid + 1, right)

RECURSIVE InsertionSort(_, _)
InsertionSort(sorted, rest) ==
    IF rest = <<>> THEN sorted
    ELSE InsertionSort(
            InsertAt(sorted, BinarySearch(sorted, Head(rest), 0, Len(sorted)),
                     Head(rest)),
            Tail(rest))

\* arr.slice().sort(compareFn)
sortByTime(arr) == InsertionSort(<<>>, arr)

----------------------------------------------------------------------------
(* The document store *)

\* The intervals right after the effects have set them: clock and dayCheck
\* are the milliseconds since the clock and the day-change interval were
\* set or fired last; dirty = a state update waits for its render.
TimersSet == [clock |-> 0, dayCheck |-> 0, dirty |-> FALSE]

\* weatherData before the first answer: useState(null)
NoWeather == [kind |-> "null"]

EmptyDoc == [walks |-> <<>>, meals |-> <<>>, snacks |-> <<>>]

exists(s, k) == k \in DOMAIN s

\* setDoc(docRef, data)
setDoc(s, k, data) == [x \in DOMAIN s \cup {k} |-> IF x = k THEN data ELSE s[x]]

\* snap.exists() ? snap.data()[field] || [] : []
fieldOf(s, k, f) == IF exists(s, k) THEN s[k][f] ELSE <<>>

\* updateDoc(docRef, updateData): the named fields are replaced
updateDoc(s, k, updateData) ==
    [s EXCEPT ![k] = [f \in DOMAIN s[k] |->
                        IF f \in DOMAIN updateData THEN updateData[f] ELSE s[k][f]]]

\* getDocRefForDate: the key a date resolves to
dateKeyOf(date) ==
    IF toDateString(date) = todayStr THEN mainKey ELSE toISODate(date)

\* getDocRefForDate: the store after the lazy creation
\* getDocRefForDate, had it written the empty document without the check
getDocRefForDateSetting(s, date) ==
    IF dateKeyOf(date) # mainKey THEN setDoc(s, dateKeyOf(date), EmptyDoc) ELSE s

getDocRefForDate(s, date) ==
    LET dateKey == dateKeyOf(date)
    IN  IF ~exists(s, dateKey) /\ dateKey # mainKey
        THEN setDoc(s, dateKey, EmptyDoc)
        ELSE s

hasWeight(m) == m.weight # 0
hasQuantity(x) == x.quantity # 0

\* The three setters of loadForDate and of the snapshot listener.
viewOf(data) ==
    [walks  |-> sortByTime(data.walks),
     meals  |-> SelectSeq(data.meals, hasWeight),
     snacks |-> SelectSeq(data.snacks, hasQuantity)]

\* loadForDate: the key it reads
loadKeyOf(date) ==
    IF toDateString(date) = todayStr THEN mainKey ELSE toISODate(date)

\* loadForDate, had it initialised the document of any date when absent
loadStoreCreating(s, date) ==
    IF ~exists(s, loadKeyOf(date)) THEN setDoc(s, loadKeyOf(date), EmptyDoc)
    ELSE s

\* loadForDate: the store afterwards ('main' is initialised when absent)
loadStore(s, date) ==
    IF toDateString(date) = todayStr /\ ~exists(s, mainKey)
    THEN setDoc(s, mainKey, EmptyDoc)
    ELSE s

\* loadForDate: what it shows
loadView(s, date) ==
    IF exists(s, loadKeyOf(date)) THEN viewOf(s[loadKeyOf(date)])
    ELSE viewOf(EmptyDoc)

\* loadForDate(date) as a whole, on store s
loadForDate(s, date) ==
    /\ editMode' = FALSE
    /\ isHistoryMode' = (toDateString(date) # todayStr)
    /\ walks' = loadView(s, date).walks
    /\ meals' = loadView(s, date).meals
    /\ snacks' = loadView(s, date).snacks
    /\ store' = loadStore(s, date)

----------------------------------------------------------------------------
(* The history catalog *)

RECURSIVE SetToDescSeq(_)
SetToDescSeq(S) ==
    IF S = {} THEN <<>>
    ELSE LET m == CHOOSE x \in S : \A y \in S : y <= x
         IN  <<m>> \o SetToDescSeq(S \ {m})

SeqToSet(s) == {s[i] : i \in DOMAIN s}

Take(s, n) == SubSeq(s, 1, IF Len(s) < n THEN Len(s) ELSE n)

\* docId.match(/^\d{4}-\d{2}-\d{2}$/)
matchesDateKey(k) == k # mainKey

\* getDocs(baseQuery): keys in descending __name__ order, after the cursor
queryKeys(s, isInitialLoad, cursor) ==
    LET all == SetToDescSeq(DOMAIN s)
        after == IF ~isInitialLoad /\ cursor # NullKey
                 THEN SelectSeq(all, LAMBDA k : k < cursor)
                 ELSE all
    IN  Take(after, historyLimit)

\* currentDates: the known date strings, the page's and today's and
\* yesterday's
currentDatesOf(page, isInitialLoad) ==
    (IF ~isInitialLoad /\ ~availableDates.isNull
     THEN SeqToSet(availableDates.list) ELSE {})
    \cup {toDateString(parseISODate(page[i])) :
            i \in {j \in DOMAIN page : matchesDateKey(page[j])}}
    \cup {todayStr, yesterdayStr}

\* Array.from(set).map(d => new Date(d)).sort((a, b) => b - a)
\*      .map(d => d.toDateString())
sortedDatesOf(S) ==
    LET byInstant == SetToDescSeq({parseDateString(d) : d \in S})
    IN  [i \in DOMAIN byInstant |-> toDateString(byInstant[i])]

\* the list, had the page been appended to an array instead of added to a Set
catalogOfAppended(page, isInitialLoad) ==
    (IF ~isInitialLoad /\ ~availableDates.isNull
     THEN availableDates.list ELSE <<>>)
    \o sortedDatesOf(currentDatesOf(page, TRUE))

\* the list, had today and yesterday not been injected
catalogOfStoredOnly(page, isInitialLoad) ==
    sortedDatesOf(currentDatesOf(page, isInitialLoad) \ {todayStr, yesterdayStr})

\* The sorted list loadHistoryDates stores on success.
catalogOf(page, isInitialLoad) ==
    sortedDatesOf(currentDatesOf(page, isInitialLoad))

\* lastDocKey: the last key of the page that matched the pattern
lastDocKeyOf(page) ==
    LET hits == SelectSeq(page, matchesDateKey)
    IN  IF hits = <<>> THEN NullKey ELSE hits[Len(hits)]

\* loadHistoryDates(isInitialLoad) on store s; ok = the query succeeded
\* the catch branch, had it not looked at availableDates
fallbackCatalogAlways ==
    [isNull |-> FALSE, list |-> sortedDatesOf({todayStr, yesterdayStr})]

\* the catch branch: if (availableDates === null) setAvailableDates(...)
fallbackCatalog ==
    IF availableDates.isNull
    THEN [isNull |-> FALSE, list |-> sortedDatesOf({todayStr, yesterdayStr})]
    ELSE availableDates

loadHistoryDates(s, isInitialLoad, ok) ==
    LET page == queryKeys(s, isInitialLoad, lastVisibleDate)
    IN  IF ok
        THEN /\ availableDates' =
                    [isNull |-> FALSE, list |-> catalogOf(page, isInitialLoad)]
             /\ lastVisibleDate' = lastDocKeyOf(page)
             /\ hasMoreHistory' = (Len(page) >= historyLimit)
        ELSE /\ availableDates' = fallbackCatalog
             /\ lastVisibleDate' = lastVisibleDate
             /\ hasMoreHistory' = FALSE

catalogUnchanged == UNCHANGED <<availableDates, lastVisibleDate, hasMoreHistory>>

----------------------------------------------------------------------------
(* Derived values *)

isWalkDue ==
    IF isHistoryMode THEN FALSE
    ELSE IF Len(walks) = 0 THEN TRUE
    ELSE LET last == walks[Len(walks)].time
         IN  IF isNaN(last) THEN TRUE
             ELSE (now - last) >= WalkIntervalHours

----------------------------------------------------------------------------
(* Initial state: the dashboard is mounted on a fresh collection, the first *)
(* loadForDate has initialised 'main' and the first catalog load is done.  *)

StartInstant == StartDay * HoursPerDay + StartHour - tz

RECURSIVE SumLen(_, _, _)
SumLen(s, f, K) ==
    IF K = {} THEN 0
    ELSE LET k == CHOOSE x \in K : TRUE
         IN  Len(s[k][f]) + SumLen(s, f, K \ {k})

\* entries of kind f held by the whole collection
EntryCount(s, f) == SumLen(s, f, DOMAIN s)

TotalEntries(s) ==
    EntryCount(s, "walks") + EntryCount(s, "meals") + EntryCount(s, "snacks")

Mounted ==
    /\ now = StartInstant
    /\ selectedDate = now
    /\ isHistoryMode = FALSE
    /\ editMode = FALSE
    /\ walks = viewOf(store[mainKey]).walks
    /\ meals = viewOf(store[mainKey]).meals
    /\ snacks = viewOf(store[mainKey]).snacks
    /\ lastDay = getDate(now)
    /\ listeners = <<mainKey>>
    /\ weatherData = NoWeather
    /\ inFlight = {}
    /\ mounted = TRUE
    /\ timers = TimersSet
    /\ lastOp = [op |-> "mount"]

CatalogLoaded ==
    /\ availableDates =
            [isNull |-> FALSE,
             list |-> catalogOf(queryKeys(store, TRUE, NullKey), TRUE)]
    /\ lastVisibleDate = lastDocKeyOf(queryKeys(store, TRUE, NullKey))
    /\ hasMoreHistory = (Len(queryKeys(store, TRUE, NullKey)) >= historyLimit)

Init ==
    /\ tz \in TzOffsets
    /\ store = (mainKey :> EmptyDoc)
    /\ Mounted
    /\ CatalogLoaded

----------------------------------------------------------------------------
(* The live sync effect *)

\* the effect's cleanup, had it not been returned
cleanupForgotten(ls) == ls

\* return () => unsub(): the run of the effect that subscribed removes its
\* listener; a run that returned early has no cleanup.
cleanup(ls) ==
    IF toDateString(selectedDate) = todayStr /\ Len(ls) > 0
    THEN SubSeq(ls, 1, Len(ls) - 1)
    ELSE ls

\* onSnapshot(mainDocRef, ...) when the selected date sel is today's t
subscribe(ls, sel, t) ==
    IF toDateString(sel) = t THEN Append(ls, mainKey) ELSE ls

\* useEffect(..., [selectedDate, todayStr]): a step that changes the
\* selected date or today's date string runs the cleanup of the last run
\* and then the effect anew.
liveSync ==
    listeners' = IF selectedDate' = selectedDate /\ todayStr' = todayStr
                 THEN listeners
                 ELSE subscribe(cleanup(listeners), selectedDate', todayStr')

----------------------------------------------------------------------------
(* Clock and selection *)

\* An hour passes (the clock interval keeps currentTime at the wall clock).
Tick(limit) ==
    /\ now < StartInstant + limit
    /\ now' = now + 1
    /\ lastOp' = [op |-> "tick"]
    /\ UNCHANGED <<tz, timers, weatherData, inFlight, mounted, store, selectedDate, isHistoryMode, editMode, walks,
                   meals, snacks, availableDates, lastVisibleDate,
                   hasMoreHistory, lastDay>>
    /\ liveSync

\* A click on catalog entry d: setSelectedDate(new Date(d)), then the
\* effect loadForDate(selectedDate).
SelectDate(d) ==
    /\ ~availableDates.isNull
    /\ d \in SeqToSet(availableDates.list)
    /\ d >= StartDay - MaxBack
    /\ selectedDate' = parseDateString(d)
    /\ loadForDate(store, parseDateString(d))
    /\ lastOp' = [op |-> "select"]
    /\ catalogUnchanged
    /\ UNCHANGED <<now, tz, timers, weatherData, inFlight, mounted, lastDay>>
    /\ liveSync

\* The edit button: setEditMode(!editMode).  It decides what is rendered
\* only in history mode, and is pressed there.
ToggleEditMode ==
    /\ isHistoryMode
    /\ editMode' = ~editMode
    /\ lastOp' = [op |-> "toggleEdit"]
    /\ catalogUnchanged
    /\ UNCHANGED <<now, tz, timers, weatherData, inFlight, mounted, listeners, store, selectedDate, isHistoryMode, walks, meals,
                   snacks, lastDay>>

\* The add / edit / delete buttons are rendered when this holds.
controlsShown == ~isHistoryMode \/ editMode

----------------------------------------------------------------------------
(* handleAction and the handlers of the log *)

\* What a handler leaves alone when it returns early or throws after
\* getDocRefForDate: s1 is the store it has reached.
abandon(s1) ==
    /\ store' = s1
    /\ catalogUnchanged
    /\ UNCHANGED <<isHistoryMode, editMode, walks, meals, snacks>>

\* handleAction(updateData, isNewDoc) on store s (the store the handler
\* has reached); ok = the catalog query, if one is issued, succeeds.
handleAction(s, updateData, isNewDoc, ok) ==
    LET dateKey == dateKeyOf(selectedDate)
        s1 == getDocRefForDate(s, selectedDate)
    IN  IF ~exists(s1, dateKey)
        THEN abandon(s1)    \* updateDoc rejects: no such document
        ELSE /\ loadForDate(updateDoc(s1, dateKey, updateData), selectedDate)
             /\ IF isNewDoc /\ toDateString(selectedDate) # todayStr
                THEN loadHistoryDates(updateDoc(s1, dateKey, updateData), TRUE, ok)
                ELSE catalogUnchanged

\* the sequence an add handler reads: getDoc(await getDocRefForDate(...))
currentOf(f) ==
    fieldOf(getDocRefForDate(store, selectedDate), dateKeyOf(selectedDate), f)

\* an add handler from its new entry on: read, append, handleAction(.., true)
addEntry(op, f, updateData, ok) ==
    /\ controlsShown
    /\ handleAction(getDocRefForDate(store, selectedDate), updateData, TRUE, ok)
    /\ lastOp' = [op |-> op, key |-> dateKeyOf(selectedDate)]
    /\ UNCHANGED <<now, tz, timers, weatherData, inFlight, mounted, listeners, selectedDate, lastDay>>

\* addWalk
AddWalk(ok) ==
    /\ EntryCount(store, "walks") < MaxWalks
    /\ addEntry("addWalk", "walks",
           [walks |-> sortByTime(Append(currentOf("walks"), [time |-> now]))], ok)

\* addCustomWalk with hour h typed into the prompt
AddCustomWalk(h, ok) ==
    /\ EntryCount(store, "walks") < MaxWalks
    /\ addEntry("addCustomWalk", "walks",
           [walks |-> sortByTime(Append(currentOf("walks"),
                                        [time |-> localDateAtHour(now, h)]))], ok)

\* the new meal, had it been placed first
prependMeal(current, newMeal) == <<newMeal>> \o current

\* [...current, newMeal]
appendMeal(current, newMeal) == Append(current, newMeal)

\* [...current, newSnack]
appendSnack(current, newSnack) == Append(current, newSnack)

\* addMeal from its new entry on, weight w (w passes the validation)
addMeal(w, ok) ==
    addEntry("addMeal", "meals",
        [meals |-> appendMeal(currentOf("meals"), [time |-> now, weight |-> w])],
        ok)

\* addCustomMeal from its new entry on, hour h and weight w typed
addCustomMeal(h, w, ok) ==
    addEntry("addCustomMeal", "meals",
        [meals |-> appendMeal(currentOf("meals"),
                              [time |-> localDateAtHour(now, h), weight |-> w])],
        ok)

\* addSnack from its new entry on, type ty and quantity q (both valid)
addSnack(ty, q, ok) ==
    addEntry("addSnack", "snacks",
        [snacks |-> appendSnack(currentOf("snacks"),
                                [time |-> now, type |-> ty, quantity |-> q])],
        ok)

\* addCustomSnack from its new entry on
addCustomSnack(h, ty, q, ok) ==
    addEntry("addCustomSnack", "snacks",
        [snacks |-> appendSnack(currentOf("snacks"),
                                [time |-> localDateAtHour(now, h), type |-> ty,
                                 quantity |-> q])],
        ok)

\* addMeal with weight w typed into the prompt (w passes the validation)
AddMeal(w, ok) ==
    /\ TotalEntries(store) < MaxEntries
    /\ addMeal(w, ok)

\* addSnack with type ty and quantity q (both pass the validation)
AddSnack(ty, q, ok) ==
    /\ TotalEntries(store) < MaxEntries
    /\ addSnack(ty, q, ok)

\* editEntry(i, type, promptMsg, updateFn) from the button of displayed row
\* i (1-based), with a non-empty input that updateFn accepts; updated[i] is
\* updateFn(old, input).
editEntry(op, i, f, input, updated, resort) ==
    /\ controlsShown
    /\ LET s1 == getDocRefForDate(store, selectedDate)
           dateKey == dateKeyOf(selectedDate)
           current == fieldOf(s1, dateKey, f)
       IN  IF ~exists(s1, dateKey) \/ i > Len(current)
           THEN abandon(s1)  \* no snapshot, or old is undefined: a TypeError
           ELSE handleAction(s1,
                    (f :> IF resort
                          THEN sortByTime([current EXCEPT ![i] = updated[i]])
                          ELSE [current EXCEPT ![i] = updated[i]]),
                    FALSE, TRUE)
    /\ lastOp' = [op |-> op, key |-> dateKeyOf(selectedDate), i |-> i,
                  input |-> input]
    /\ UNCHANGED <<now, tz, timers, weatherData, inFlight, mounted, listeners, selectedDate, lastDay>>

\* editWalk's updateFn: the entry's own local date at the typed hour
editWalkFn(old, h) == [old EXCEPT !.time = localDateAtHour(old.time, h)]

\* editMeal's updateFn, had it built the entry anew instead of spreading old
editMealFnAnew(old, weightNum) == [time |-> now, weight |-> weightNum]

\* editMeal's updateFn
editMealFn(old, weightNum) == [old EXCEPT !.weight = weightNum]

EditWalk(i, h) ==
    /\ i \in DOMAIN walks
    /\ editEntry("editWalk", i, "walks", h,
                 [j \in DOMAIN currentOf("walks") |->
                        editWalkFn(currentOf("walks")[j], h)], TRUE)

EditMeal(i, w) ==
    /\ i \in DOMAIN meals
    /\ editEntry("editMeal", i, "meals", w,
                 [j \in DOMAIN currentOf("meals") |->
                        editMealFn(currentOf("meals")[j], w)], FALSE)

\* current.splice(i): without the count, everything from i on is removed
spliceToEnd(current, i) ==
    IF i \in DOMAIN current THEN SubSeq(current, 1, i - 1) ELSE current

\* current.splice(i, 1), i counted from 1 here
splice(current, i) ==
    IF i \in DOMAIN current
    THEN SubSeq(current, 1, i - 1) \o SubSeq(current, i + 1, Len(current))
    ELSE current

shown(f) == IF f = "walks" THEN walks ELSE IF f = "meals" THEN meals ELSE snacks

\* The handler returns before it has touched the store or the state.
returnsEarly ==
    /\ store' = store
    /\ catalogUnchanged
    /\ UNCHANGED <<isHistoryMode, editMode, walks, meals, snacks>>

\* deleteEntry after the confirmation: resolve, read, splice, write back
deleteConfirmed(i, f) ==
    LET s1 == getDocRefForDate(store, selectedDate)
        dateKey == dateKeyOf(selectedDate)
    IN  IF ~exists(s1, dateKey)
        THEN abandon(s1)
        ELSE handleAction(s1, (f :> splice(fieldOf(s1, dateKey, f), i)),
                          FALSE, TRUE)

\* deleteEntry, had it not looked at the answer of window.confirm
deleteEntryUnasked(i, f, confirmed) == deleteConfirmed(i, f)

\* deleteEntry(i, type); confirmed = the answer to window.confirm
deleteEntry(i, f, confirmed) ==
    IF ~confirmed THEN returnsEarly ELSE deleteConfirmed(i, f)

\* deleteEntry(i, type) from the button of displayed row i, confirmed
DeleteEntry(i, f) ==
    /\ controlsShown
    /\ i \in DOMAIN shown(f)
    /\ deleteEntry(i, f, TRUE)
    /\ lastOp' = [op |-> "deleteEntry", key |-> dateKeyOf(selectedDate),
                  i |-> i, type |-> f]
    /\ UNCHANGED <<now, tz, timers, weatherData, inFlight, mounted, listeners, selectedDate, lastDay>>

\* deleteEntry(i, type) from the button of displayed row i, declined
DeleteEntryDeclined(i, f) ==
    /\ controlsShown
    /\ i \in DOMAIN shown(f)
    /\ deleteEntry(i, f, FALSE)
    /\ lastOp' = [op |-> "deleteEntryDeclined", i |-> i, type |-> f]
    /\ UNCHANGED <<now, tz, timers, weatherData, inFlight, mounted, listeners, selectedDate, lastDay>>

\* resetDay; confirmed = the answer to window.confirm
resetDay(confirmed) ==
    IF ~confirmed THEN returnsEarly
    ELSE handleAction(store, EmptyDoc, FALSE, TRUE)

\* resetDay, had it cleared the walks alone
ResetDayWalksOnly ==
    /\ ~isHistoryMode
    /\ Len(walks) > 0
    /\ handleAction(store, [walks |-> <<>>], FALSE, TRUE)
    /\ lastOp' = [op |-> "resetDay", key |-> dateKeyOf(selectedDate)]
    /\ UNCHANGED <<now, tz, timers, weatherData, inFlight, mounted, listeners, selectedDate, lastDay>>

\* resetDay, confirmed; its button is rendered outside history mode when
\* a walk is shown
ResetDay ==
    /\ ~isHistoryMode
    /\ Len(walks) > 0
    /\ resetDay(TRUE)
    /\ lastOp' = [op |-> "resetDay", key |-> dateKeyOf(selectedDate)]
    /\ UNCHANGED <<now, tz, timers, weatherData, inFlight, mounted, listeners, selectedDate, lastDay>>

\* resetDay, declined
ResetDayDeclined ==
    /\ ~isHistoryMode
    /\ Len(walks) > 0
    /\ resetDay(FALSE)
    /\ lastOp' = [op |-> "resetDayDeclined"]
    /\ UNCHANGED <<now, tz, timers, weatherData, inFlight, mounted, listeners, selectedDate, lastDay>>

----------------------------------------------------------------------------
(* The prompts of the handlers and their validation *)

\* what prompt() returns when it is cancelled
PromptNull == "null"

\* Texts typed into the prompts.
WeightInputs == {PromptNull, "abc", "0", "-5", "750"}
QtyInputs == {PromptNull, "abc", "0", "3"}
TypeInputs == {"", "biscuit"}
TimeInputs == {PromptNull, "08:00"}
SnackEdits == {PromptNull, "bone,3", ",3", "bone,0"}

\* !input
falsy(x) == x \in {PromptNull, ""}

\* isNaN(parseInt(x))
parsesToNaN(x) == x \notin {"0", "-5", "3", "750"}

\* parseInt(x) of a text that starts with a number
parseInt(x) ==
    CASE x = "0" -> 0
      [] x = "-5" -> 0 - 5
      [] x = "3" -> 3
      [] x = "750" -> 750

\* Number(timeInput.split(':')[0])
hourOf(x) == CASE x = "08:00" -> 8

\* input.split(','): the type part, trimmed, and the quantity part
typePartOf(x) ==
    CASE x = "bone,3" -> "bone" [] x = ",3" -> "" [] x = "bone,0" -> "bone"
      [] x = "bone" -> "bone"
qtyPartOf(x) ==
    CASE x = "bone,3" -> "3" [] x = ",3" -> "3" [] x = "bone,0" -> "0"
      [] x = "bone" -> PromptNull

\* the weight check, had it tested for a number alone
invalidWeightUnsigned(x) == x = PromptNull \/ parsesToNaN(x)

\* weight === null || isNaN(parseInt(weight)) || parseInt(weight) <= 0
invalidWeight(x) == x = PromptNull \/ parsesToNaN(x) \/ parseInt(x) <= 0

\* !qty || isNaN(parseInt(qty)) || parseInt(qty) <= 0
invalidQty(x) == falsy(x) \/ parsesToNaN(x) \/ parseInt(x) <= 0

\* an add handler from its prompts on: rejected = a check returned early
prompted(op, inputs, rejected, updateData) ==
    /\ controlsShown
    /\ IF rejected THEN returnsEarly
       ELSE handleAction(getDocRefForDate(store, selectedDate), updateData,
                         TRUE, TRUE)
    /\ lastOp' = [op |-> op, inputs |-> inputs, prompted |-> TRUE]
    /\ UNCHANGED <<now, tz, timers, weatherData, inFlight, mounted, listeners, selectedDate, lastDay>>

\* addMeal with the text typed for the weight
AddMealPrompted(weight) ==
    /\ TotalEntries(store) < MaxPrompted
    /\ prompted("addMeal", <<weight>>, invalidWeight(weight),
           [meals |-> Append(currentOf("meals"),
                             [time |-> now, weight |-> parseInt(weight)])])

\* addCustomMeal with the texts typed for the time and the weight
AddCustomMealPrompted(timeInput, weightInput) ==
    /\ TotalEntries(store) < MaxPrompted
    /\ prompted("addCustomMeal", <<timeInput, weightInput>>,
           falsy(timeInput) \/ invalidWeight(weightInput),
           [meals |-> Append(currentOf("meals"),
                             [time |-> localDateAtHour(now, hourOf(timeInput)),
                              weight |-> parseInt(weightInput)])])

\* addSnack with the texts typed for the type and the quantity
AddSnackPrompted(type, qty) ==
    /\ TotalEntries(store) < MaxPrompted
    /\ prompted("addSnack", <<type, qty>>, falsy(type) \/ invalidQty(qty),
           [snacks |-> Append(currentOf("snacks"),
                              [time |-> now, type |-> type,
                               quantity |-> parseInt(qty)])])

\* editEntry(i, type, promptMsg, updateFn) from the button of displayed row
\* i with the text typed into its prompt; rejected = updateFn returned
\* null; updated = updateFn(old, input).  Without a snapshot or an entry i
\* the handler ends before the prompt is shown.
editPrompted(op, i, f, input, rejected, updated) ==
    /\ controlsShown
    /\ i \in DOMAIN shown(f)
    /\ LET s1 == getDocRefForDate(store, selectedDate)
           dateKey == dateKeyOf(selectedDate)
           current == fieldOf(s1, dateKey, f)
           reached == exists(s1, dateKey) /\ i <= Len(current)
       IN  /\ IF ~reached \/ falsy(input) \/ rejected
              THEN abandon(s1)
              ELSE handleAction(s1, (f :> [current EXCEPT ![i] = updated]),
                                FALSE, TRUE)
           /\ lastOp' = [op |-> op, inputs |-> <<input>>, prompted |-> reached]
    /\ UNCHANGED <<now, tz, timers, weatherData, inFlight, mounted, listeners, selectedDate, lastDay>>

\* editMeal's check, had it tested for a number alone
editMealRejectsNaN(input) == parsesToNaN(input)

\* (old, input) => isNaN(weightNum) || weightNum <= 0 ? null : ...
editMealRejects(input) == parsesToNaN(input) \/ parseInt(input) <= 0

\* !type || isNaN(qtyNum) || qtyNum <= 0 ? null : ...
editSnackRejects(input) ==
    \/ typePartOf(input) = ""
    \/ parsesToNaN(qtyPartOf(input))
    \/ parseInt(qtyPartOf(input)) <= 0

\* editSnack's updateFn
editSnackFn(old, input) ==
    [old EXCEPT !.type = typePartOf(input),
                !.quantity = parseInt(qtyPartOf(input))]

EditMealPrompted(i, input) ==
    editPrompted("editMeal", i, "meals", input,
                 falsy(input) \/ editMealRejects(input),
                 editMealFn(currentOf("meals")[i], parseInt(input)))

EditSnackPrompted(i, input) ==
    editPrompted("editSnack", i, "snacks", input,
                 falsy(input) \/ editSnackRejects(input),
                 editSnackFn(currentOf("snacks")[i], input))

\* editSnack from the button of displayed row i, with an input that its
\* updateFn accepts
EditSnack(i, input) ==
    /\ i \in DOMAIN snacks
    /\ editEntry("editSnack", i, "snacks", input,
                 [j \in DOMAIN currentOf("snacks") |->
                        editSnackFn(currentOf("snacks")[j], input)], FALSE)

\* Texts typed into the time prompts of the walk handlers.
WalkTimeInputs == {PromptNull, "08:00", "abc"}

\* isNaN(Number(x.split(':')[0])): new Date(y, m, d, NaN, ...) is an
\* invalid date, and toISOString() of an invalid date throws a RangeError
hourIsNaN(x) == x = "abc"

\* addCustomWalk with the text typed for the time; the handler returns on
\* an empty text and throws on an invalid date before it reaches the store
AddCustomWalkPrompted(timeInput) ==
    /\ TotalEntries(store) < MaxPrompted
    /\ prompted("addCustomWalk", <<timeInput>>,
           falsy(timeInput) \/ hourIsNaN(timeInput),
           [walks |-> sortByTime(Append(currentOf("walks"),
                        [time |-> localDateAtHour(now, hourOf(timeInput))]))])

\* addCustomSnack with the texts typed for the time, the type and the
\* quantity
AddCustomSnackPrompted(timeInput, type, qty) ==
    /\ TotalEntries(store) < MaxPrompted
    /\ prompted("addCustomSnack", <<timeInput, type, qty>>,
           falsy(timeInput) \/ falsy(type) \/ invalidQty(qty),
           [snacks |-> appendSnack(currentOf("snacks"),
                        [time |-> localDateAtHour(now, hourOf(timeInput)),
                         type |-> type, quantity |-> parseInt(qty)])])

\* editWalk from the button of displayed row i with the text typed for the
\* time; on an invalid date its updateFn throws, after the resolution
EditWalkPrompted(i, input) ==
    /\ controlsShown
    /\ i \in DOMAIN walks
    /\ LET s1 == getDocRefForDate(store, selectedDate)
           dateKey == dateKeyOf(selectedDate)
           current == fieldOf(s1, dateKey, "walks")
           reached == exists(s1, dateKey) /\ i <= Len(current)
       IN  /\ IF ~reached \/ falsy(input) \/ hourIsNaN(input)
              THEN abandon(s1)
              ELSE handleAction(s1,
                     [walks |-> sortByTime([current EXCEPT
                            ![i] = editWalkFn(current[i], hourOf(input))])],
                     FALSE, TRUE)
           /\ lastOp' = [op |-> "editWalk", inputs |-> <<input>>,
                         prompted |-> reached]
    /\ UNCHANGED <<now, tz, timers, weatherData, inFlight, mounted, listeners,
                   selectedDate, lastDay>>

----------------------------------------------------------------------------
(* Day rollover and archival *)

hasEntries(data) ==
    Len(data.walks) # 0 \/ Len(data.meals) # 0 \/ Len(data.snacks) # 0

\* archivePreviousDay(previousDay) takes its branch that copies and clears
archives(s, previousDay) ==
    /\ exists(s, mainKey)
    /\ hasEntries(s[mainKey])
    /\ ~exists(s, toISODate(previousDay))

\* archivePreviousDay, had it not looked for the ended date's document
archivePreviousDayOverwriting(s, previousDay) ==
    IF exists(s, mainKey) /\ hasEntries(s[mainKey])
    THEN setDoc(setDoc(s, toISODate(previousDay), s[mainKey]), mainKey, EmptyDoc)
    ELSE s

\* archivePreviousDay(previousDay): the store afterwards
archivePreviousDay(s, previousDay) ==
    IF archives(s, previousDay)
    THEN setDoc(setDoc(s, toISODate(previousDay), s[mainKey]), mainKey, EmptyDoc)
    ELSE s

\* The interval callback of the day-change effect, when the day has changed:
\* archival, setSelectedDate(now), the reload of today and of the catalog.
\* The view is the one left once the loads and the snapshot of the cleared
\* 'main' have arrived.
RolloverCheck(ok) ==
    /\ getDate(now) # lastDay
    /\ LET previousDay == minusOneDay(now)
           s1 == archivePreviousDay(store, previousDay)
       IN  /\ selectedDate' = now
           /\ loadForDate(s1, now)
           /\ loadHistoryDates(loadStore(s1, now), TRUE, ok)
           /\ lastOp' = [op |-> "rollover", previousDay |-> previousDay,
                         existed |-> exists(store, toISODate(previousDay))]
    /\ lastDay' = getDate(now)
    /\ UNCHANGED <<now, tz, timers, weatherData, inFlight, mounted>>
    /\ liveSync

\* The callback of a snapshot listener on 'main': a change of 'main' from
\* s to s1 replaces the displayed lists.
onSnapshot(s, s1) ==
    IF /\ \E l \in DOMAIN listeners : listeners[l] = mainKey
       /\ exists(s1, mainKey)
       /\ ~exists(s, mainKey) \/ s1[mainKey] # s[mainKey]
    THEN /\ walks' = viewOf(s1[mainKey]).walks
         /\ meals' = viewOf(s1[mainKey]).meals
         /\ snacks' = viewOf(s1[mainKey]).snacks
    ELSE UNCHANGED <<walks, meals, snacks>>

\* archivePreviousDay(previousDay) run once more, right after the run of
\* the rollover, for the same ended date.
ArchiveAgain(ok) ==
    /\ lastOp.op = "rollover"
    /\ store' = archivePreviousDay(store, lastOp.previousDay)
    /\ onSnapshot(store, archivePreviousDay(store, lastOp.previousDay))
    /\ IF archives(store, lastOp.previousDay)
       THEN loadHistoryDates(archivePreviousDay(store, lastOp.previousDay), TRUE, ok)
       ELSE catalogUnchanged
    /\ lastOp' = [op |-> "archiveAgain", previousDay |-> lastOp.previousDay,
                  existed |-> lastOp.existed]
    /\ UNCHANGED <<now, tz, timers, weatherData, inFlight, mounted, listeners, selectedDate, isHistoryMode, editMode, lastDay>>

----------------------------------------------------------------------------
(* Weather *)

\* Temperatures the weather service reports.
Temps == {12, 15}
\* Icon codes the weather service reports.
Icons == {"01d", "10d"}

\* setWeatherData({}) of the catch branch
EmptyWeather == [kind |-> "empty"]

\* fetchWeather completes; ok = the request succeeded, temp and icon = its
\* reading.
FetchWeather(ok, temp, icon) ==
    /\ mounted
    /\ weatherData' = IF ok
                      THEN [kind |-> "reading", temp |-> temp, icon |-> icon]
                      ELSE EmptyWeather
    /\ lastOp' = [op |-> "fetchWeather", ok |-> ok]
    /\ catalogUnchanged
    /\ UNCHANGED <<now, tz, timers, inFlight, mounted, listeners, store, selectedDate,
                   isHistoryMode, editMode, walks, meals, snacks, lastDay>>

\* weatherData === {}: the comparison of a value with a new object
equalsNewObject(w) == FALSE

\* The weather card: the glyph, the temperature text and the error line.
weatherCard(w) ==
    IF w.kind = "reading"
    THEN [glyph |-> w.icon, temp |-> w.temp, error |-> equalsNewObject(w)]
    ELSE [glyph |-> "?", temp |-> "...", error |-> equalsNewObject(w)]

----------------------------------------------------------------------------
(* The day-change callback with its calls in flight *)

\* the calls the callback issues without awaiting them
archiveCall(previousDay) == [call |-> "archive", previousDay |-> previousDay]
loadCall(date) == [call |-> "load", date |-> date]
catalogCall(from) == [call |-> "catalog", from |-> from]

archivePending(C) == \E c \in C : c.call = "archive"

\* The interval callback when the day has changed: it issues
\* archivePreviousDay(previousDay), setSelectedDate(now), loadForDate(now)
\* and loadHistoryDates(true) and returns; loadForDate has run up to its
\* first await (setEditMode(false), setIsHistoryMode(false)).
dayChanged ==
    /\ inFlight' = inFlight \cup {archiveCall(minusOneDay(now)), loadCall(now),
                                  catalogCall("cycle")}
    /\ selectedDate' = now
    /\ editMode' = FALSE
    /\ isHistoryMode' = FALSE
    /\ lastDay' = getDate(now)
    /\ lastOp' = [op |-> "dayChanged"]
    /\ catalogUnchanged
    /\ UNCHANGED <<now, tz, weatherData, mounted, store, walks, meals, snacks>>
    /\ liveSync

\* The callback fires on a changed day, whatever is still in flight.
DayChanged ==
    /\ mounted
    /\ getDate(now) # lastDay
    /\ dayChanged
    /\ UNCHANGED timers

\* archivePreviousDay(previousDay) runs to its end; when it has archived
\* it issues loadHistoryDates(true), and the listener on 'main' receives
\* the cleared document.
ArchiveRun ==
    \E c \in inFlight :
        /\ c.call = "archive"
        /\ store' = archivePreviousDay(store, c.previousDay)
        /\ onSnapshot(store, archivePreviousDay(store, c.previousDay))
        /\ inFlight' = (inFlight \ {c}) \cup
                (IF archives(store, c.previousDay)
                 THEN {catalogCall("archive")} ELSE {})
        /\ lastOp' = [op |-> "archiveRun", previousDay |-> c.previousDay,
                      copied |-> archives(store, c.previousDay)]
        /\ catalogUnchanged
        /\ UNCHANGED <<now, tz, timers, weatherData, mounted, listeners, selectedDate,
                       isHistoryMode, editMode, lastDay>>

\* the loadForDate(date) in flight reads its document and sets the lists
LoadRun ==
    \E c \in inFlight :
        /\ c.call = "load"
        /\ loadForDate(store, c.date)
        /\ inFlight' = inFlight \ {c}
        /\ lastOp' = [op |-> "loadRun"]
        /\ catalogUnchanged
        /\ UNCHANGED <<now, tz, timers, weatherData, mounted, listeners, selectedDate,
                       lastDay>>

\* a loadHistoryDates(true) in flight queries the collection and sets the
\* catalog
CatalogRun ==
    \E c \in inFlight :
        /\ c.call = "catalog"
        /\ loadHistoryDates(store, TRUE, TRUE)
        /\ inFlight' = inFlight \ {c}
        /\ lastOp' = [op |-> "catalogRun", from |-> c.from]
        /\ UNCHANGED <<now, tz, timers, weatherData, mounted, listeners, store,
                       selectedDate, isHistoryMode, editMode, walks, meals,
                       snacks, lastDay>>

----------------------------------------------------------------------------
(* The intervals and the render they cause *)

\* Durations for which the thread is kept by a modal prompt or confirm.
BlockedFor == {DayCheckIntervalMs}

Min(a, b) == IF a < b THEN a ELSE b

\* ms milliseconds later on both intervals; a due interval stays due
elapsed(ms) ==
    [timers EXCEPT !.clock = Min(@ + ms, ClockIntervalMs),
                   !.dayCheck = Min(@ + ms, DayCheckIntervalMs)]

othersUnchanged ==
    /\ catalogUnchanged
    /\ UNCHANGED <<now, tz, weatherData, inFlight, mounted, listeners, store,
                   selectedDate, isHistoryMode, editMode, walks, meals, snacks,
                   lastDay>>

\* Time passes up to the moment the clock interval is due; a due callback
\* and a pending render run before more time passes.
Elapse ==
    /\ mounted
    /\ timers.clock < ClockIntervalMs
    /\ timers.dayCheck < DayCheckIntervalMs
    /\ ~timers.dirty
    /\ timers' = elapsed(ClockIntervalMs)
    /\ lastOp' = [op |-> "elapse"]
    /\ othersUnchanged

\* A modal dialog (prompt, confirm) keeps the thread for ms milliseconds:
\* no callback and no render runs meanwhile.
Blocked(ms) ==
    /\ mounted
    /\ timers' = elapsed(ms)
    /\ timers' # timers
    /\ lastOp' = [op |-> "blocked"]
    /\ othersUnchanged

\* The callback of the clock interval: setCurrentTime(new Date())
ClockFires ==
    /\ mounted
    /\ timers.clock = ClockIntervalMs
    /\ timers' = [timers EXCEPT !.clock = 0, !.dirty = TRUE]
    /\ lastOp' = [op |-> "clock"]
    /\ othersUnchanged

\* The day-change effect at a render: mainDocRef and historyCollectionRef
\* are new objects at each render, so are archivePreviousDay and
\* loadHistoryDates, the effect's dependencies: its cleanup clears the
\* interval and the effect sets a new one.
rerunDayChangeEffect(tm) == [tm EXCEPT !.dayCheck = 0]

\* The render after a state update, with the effects whose dependencies
\* have changed: the day-change effect and the initial history load, which
\* depends on loadHistoryDates and issues loadHistoryDates(true).
Render ==
    /\ mounted
    /\ timers.dirty
    /\ timers' = [rerunDayChangeEffect(timers) EXCEPT !.dirty = FALSE]
    /\ lastDay' = getDate(now)  \* let lastDay = new Date().getDate()
    /\ inFlight' = inFlight \cup {catalogCall("effect")}
    /\ lastOp' = [op |-> "render"]
    /\ catalogUnchanged
    /\ UNCHANGED <<now, tz, weatherData, mounted, listeners, store,
                   selectedDate, isHistoryMode, editMode, walks, meals, snacks>>

\* The callback of the day-change interval, every 10 seconds.
DayCheck ==
    /\ mounted
    /\ timers.dayCheck = DayCheckIntervalMs
    /\ timers' = [timers EXCEPT !.dayCheck = 0]
    /\ IF getDate(now) # lastDay
       THEN dayChanged
       ELSE /\ lastOp' = [op |-> "dayCheck"]
            /\ othersUnchanged

----------------------------------------------------------------------------
(* Writes of other clients and the teardown of the component *)

\* Another client replaces the contents of 'main'; the listeners attached
\* to it receive the snapshot.
RemoteWrite(data) ==
    /\ exists(store, mainKey)
    /\ store' = setDoc(store, mainKey, data)
    /\ onSnapshot(store, setDoc(store, mainKey, data))
    /\ lastOp' = [op |-> "remoteWrite"]
    /\ catalogUnchanged
    /\ UNCHANGED <<now, tz, timers, weatherData, inFlight, mounted, listeners,
                   selectedDate, isHistoryMode, editMode, lastDay>>

\* The component is unmounted: the cleanups of its effects run.
Unmount ==
    /\ mounted
    /\ mounted' = FALSE
    /\ listeners' = cleanup(listeners)
    /\ lastOp' = [op |-> "unmount"]
    /\ catalogUnchanged
    /\ UNCHANGED <<now, tz, timers, weatherData, inFlight, store, selectedDate,
                   isHistoryMode, editMode, walks, meals, snacks, lastDay>>

----------------------------------------------------------------------------
(* The dashboard with its walk log *)

Next ==
    \/ Tick(MaxTicks)
    \/ \E d \in SeqToSet(availableDates.list) : SelectDate(d)
    \/ ToggleEditMode
    \/ AddWalk(TRUE)
    \/ \E h \in CustomHours : AddCustomWalk(h, TRUE)
    \/ \E i \in 1..MaxWalks, h \in CustomHours : EditWalk(i, h)
    \/ RolloverCheck(TRUE)

Spec == Init /\ [][Next]_vars

----------------------------------------------------------------------------
(* The dashboard with its walk, meal and snack logs *)

Kinds == {"walks", "meals", "snacks"}

NextEntries ==
    \/ Tick(MaxEntryTicks)
    \/ \E d \in {todayStr, yesterdayStr} : SelectDate(d)
    \/ ToggleEditMode
    \/ TotalEntries(store) < MaxEntries /\ AddWalk(TRUE)
    \/ \E w \in AddedWeights : AddMeal(w, TRUE)
    \/ \E ty \in SnackTypes, q \in Quantities : AddSnack(ty, q, TRUE)
    \/ \E i \in 1..MaxEntries, w \in Weights : EditMeal(i, w)
    \/ \E i \in 1..MaxEntries, f \in Kinds : DeleteEntry(i, f)
    \/ ResetDay

SpecEntries == Init /\ [][NextEntries]_vars

----------------------------------------------------------------------------
(* The meal and snack logs of today, entry by entry *)

\* The hour typed for a custom time: before the hour at which a run starts.
EarlyHours == {1}
\* Inputs to editSnack that its updateFn accepts.
SnackRewrites == {"bone,3"}

Ordered == EntryCount(store, "meals") + EntryCount(store, "snacks")

NextOrder ==
    \/ \E w \in AddedWeights : Ordered < MaxOrdered /\ addMeal(w, TRUE)
    \/ \E h \in EarlyHours, w \in AddedWeights :
            Ordered < MaxOrdered /\ addCustomMeal(h, w, TRUE)
    \/ \E ty \in SnackTypes, q \in Quantities :
            Ordered < MaxOrdered /\ addSnack(ty, q, TRUE)
    \/ \E h \in EarlyHours, ty \in SnackTypes, q \in Quantities :
            Ordered < MaxOrdered /\ addCustomSnack(h, ty, q, TRUE)
    \/ \E i \in 1..MaxOrdered, w \in Weights : EditMeal(i, w)
    \/ \E i \in 1..MaxOrdered, x \in SnackRewrites : EditSnack(i, x)
    \/ \E i \in 1..MaxOrdered, f \in {"meals", "snacks"} : DeleteEntry(i, f)

SpecOrder == Init /\ [][NextOrder]_vars

----------------------------------------------------------------------------
(* The dashboard with the prompts and confirmations of its handlers *)

NextPrompts ==
    \/ Tick(MaxEntryTicks)
    \/ \E d \in {todayStr, yesterdayStr} : SelectDate(d)
    \/ ToggleEditMode
    \/ TotalEntries(store) < MaxPrompted /\ AddWalk(TRUE)
    \/ \E w \in WeightInputs : AddMealPrompted(w)
    \/ \E ti \in TimeInputs, w \in WeightInputs : AddCustomMealPrompted(ti, w)
    \/ \E ty \in TypeInputs, q \in QtyInputs : AddSnackPrompted(ty, q)
    \/ \E i \in 1..MaxPrompted, x \in WeightInputs : EditMealPrompted(i, x)
    \/ \E i \in 1..MaxPrompted, x \in SnackEdits : EditSnackPrompted(i, x)
    \/ \E i \in 1..MaxPrompted, f \in Kinds : DeleteEntryDeclined(i, f)
    \/ ResetDayDeclined

SpecPrompts == Init /\ [][NextPrompts]_vars

----------------------------------------------------------------------------
(* The history catalog over a collection of dated documents *)

\* main and the n days before the start of the run
storeOfDays(n) ==
    [k \in {mainKey} \cup {StartDay - j : j \in 1..n} |-> EmptyDoc]

\* Mounted, the first catalog load still in flight.
InitCatalog ==
    /\ tz \in TzOffsets
    /\ \E n \in 0..MaxDocs : store = storeOfDays(n)
    /\ Mounted
    /\ availableDates = [isNull |-> TRUE, list |-> <<>>]
    /\ lastVisibleDate = NullKey
    /\ hasMoreHistory = TRUE

\* loadHistoryDates(isInitialLoad) completes; ok = the query succeeded.
\* "Load More Days" (isInitialLoad = false) is rendered once a catalog is
\* there and hasMoreHistory holds.
LoadHistoryDates(isInitialLoad, ok) ==
    /\ isInitialLoad \/ (hasMoreHistory /\ ~availableDates.isNull
                         /\ Len(availableDates.list) > 0)
    /\ loadHistoryDates(store, isInitialLoad, ok)
    /\ lastOp' = [op |-> "loadHistoryDates", reset |-> isInitialLoad, ok |-> ok,
                  first |-> availableDates.isNull]
    /\ UNCHANGED <<now, tz, timers, weatherData, inFlight, mounted, listeners, store, selectedDate, isHistoryMode, editMode,
                   walks, meals, snacks, lastDay>>

NextCatalog ==
    \/ Tick(MaxTicks)
    \/ \E isInitialLoad \in BOOLEAN, ok \in BOOLEAN :
            LoadHistoryDates(isInitialLoad, ok)

SpecCatalog == InitCatalog /\ [][NextCatalog]_vars

----------------------------------------------------------------------------
(* The day rollover over a collection left by earlier days *)

SeedWalk == [time |-> StartInstant - 1]
SeedMeal == [time |-> StartInstant - 1, weight |-> 500]
SeedSnack == [time |-> StartInstant - 1, type |-> "biscuit", quantity |-> 2]

MainSeeds ==
    {EmptyDoc,
     [walks |-> <<SeedWalk>>, meals |-> <<>>, snacks |-> <<>>],
     [walks |-> <<>>, meals |-> <<SeedMeal>>, snacks |-> <<>>],
     [walks |-> <<SeedWalk>>, meals |-> <<SeedMeal>>, snacks |-> <<SeedSnack>>]}

\* a dated document of an earlier day
OldDoc ==
    [walks |-> <<[time |-> StartInstant - HoursPerDay]>>, meals |-> <<>>,
     snacks |-> <<>>]

DatedSeeds == {EmptyDoc, OldDoc}

\* 'main' holds the day's log; the documents keyed by the start day and by
\* the day before may exist already.
InitArchive ==
    /\ tz \in TzOffsets
    /\ \E m \in MainSeeds, K \in SUBSET {StartDay - 1, StartDay},
          d \in DatedSeeds :
            store = [k \in {mainKey} \cup K |-> IF k = mainKey THEN m ELSE d]
    /\ Mounted
    /\ CatalogLoaded

NextArchive ==
    \/ Tick(MaxTicks)
    \/ RolloverCheck(TRUE)
    \/ ArchiveAgain(TRUE)

SpecArchive == InitArchive /\ [][NextArchive]_vars

----------------------------------------------------------------------------
(* The live listener under selection, rollover, remote writes and teardown *)

NextListener ==
    \/ mounted /\ Tick(MaxTicks)
    \/ \E d \in {todayStr, yesterdayStr} : mounted /\ SelectDate(d)
    \/ mounted /\ RolloverCheck(TRUE)
    \/ \E data \in MainSeeds : RemoteWrite(data)
    \/ Unmount

SpecListener == Init /\ [][NextListener]_vars

----------------------------------------------------------------------------
(* The day-boundary cycle, call by call *)

NextCycle ==
    \/ Tick(MaxTicks)
    \/ DayChanged
    \/ ArchiveRun
    \/ LoadRun
    \/ CatalogRun

SpecCycle == InitArchive /\ [][NextCycle]_vars

----------------------------------------------------------------------------
(* The dashboard left running: its intervals, renders and day-change cycle *)

\* 'main' holds a walk, a meal and a snack of the day; no dated document
\* exists yet.
InitRunning ==
    /\ tz \in TzOffsets
    /\ store = (mainKey :> [walks |-> <<SeedWalk>>, meals |-> <<SeedMeal>>,
                            snacks |-> <<SeedSnack>>])
    /\ Mounted
    /\ CatalogLoaded

NextRunning ==
    \/ Tick(MaxTicks)
    \/ Elapse
    \/ \E ms \in BlockedFor : Blocked(ms)
    \/ ClockFires
    \/ Render
    \/ DayCheck
    \/ ArchiveRun
    \/ LoadRun
    \/ CatalogRun

\* Timers are scheduled fairly: time passes, a due callback runs, a pending
\* render runs.  Nothing obliges the user to open a dialog, the hour to
\* pass or the document store to answer.
FairRunning ==
    /\ WF_vars(Elapse)
    /\ WF_vars(ClockFires)
    /\ WF_vars(Render)
    /\ WF_vars(DayCheck)

SpecRunning == InitRunning /\ [][NextRunning]_vars /\ FairRunning

----------------------------------------------------------------------------
(* The day-change cycle over more than a day, the store answering late *)

\* The check runs every ten seconds: a changed day is seen before the hour
\* passes.
NextLatency ==
    \/ getDate(now) = lastDay /\ Tick(HoursPerDay + MaxTicks)
    \/ DayChanged
    \/ ArchiveRun
    \/ LoadRun
    \/ CatalogRun

SpecLatency == InitRunning /\ [][NextLatency]_vars

----------------------------------------------------------------------------
(* The history catalog page by page, the dashboard rendering meanwhile *)

NextPaging ==
    \/ \E isInitialLoad \in BOOLEAN, ok \in BOOLEAN :
            LoadHistoryDates(isInitialLoad, ok)
    \/ Elapse
    \/ ClockFires
    \/ Render
    \/ CatalogRun

SpecPaging == InitCatalog /\ [][NextPaging]_vars

----------------------------------------------------------------------------
(* The logs under every handler with the texts typed, and the rollover *)

\* The time typed for a custom meal or snack, and the quantities typed for
\* a custom snack.
TypedTimes == {"08:00"}
TypedQtys == {"0", "3"}

NextTyped ==
    \/ Tick(MaxTicks)
    \/ TotalEntries(store) < MaxPrompted /\ AddWalk(TRUE)
    \/ \E ti \in WalkTimeInputs : AddCustomWalkPrompted(ti)
    \/ \E w \in WeightInputs : AddMealPrompted(w)
    \/ \E ti \in TypedTimes, w \in WeightInputs : AddCustomMealPrompted(ti, w)
    \/ \E ty \in TypeInputs, q \in QtyInputs : AddSnackPrompted(ty, q)
    \/ \E ti \in TypedTimes, ty \in TypeInputs, q \in TypedQtys :
            AddCustomSnackPrompted(ti, ty, q)
    \/ \E i \in 1..MaxPrompted, x \in WalkTimeInputs : EditWalkPrompted(i, x)
    \/ \E i \in 1..MaxPrompted, x \in WeightInputs : EditMealPrompted(i, x)
    \/ \E i \in 1..MaxPrompted, x \in SnackEdits : EditSnackPrompted(i, x)
    \/ \E i \in 1..MaxPrompted, f \in Kinds : DeleteEntry(i, f)
    \/ ResetDay
    \/ RolloverCheck(TRUE)

SpecTyped == Init /\ [][NextTyped]_vars

----------------------------------------------------------------------------
(* The loads of the selected date, from the construction of the component *)

\* The component is constructed and its effects have subscribed; the load
\* of the selected date has not run.  'main' may not exist yet; the
\* document of yesterday may.
InitLoad ==
    /\ tz \in TzOffsets
    /\ \E K \in SUBSET {mainKey, StartDay - 1}, m \in MainSeeds :
            store = [k \in K |-> IF k = mainKey THEN m ELSE OldDoc]
    /\ now = StartInstant
    /\ selectedDate = now
    /\ isHistoryMode = FALSE
    /\ editMode = FALSE
    /\ walks = <<>>
    /\ meals = <<>>
    /\ snacks = <<>>
    /\ lastDay = getDate(now)
    /\ listeners = <<mainKey>>
    /\ weatherData = NoWeather
    /\ inFlight = {}
    /\ mounted = TRUE
    /\ timers = TimersSet
    /\ CatalogLoaded
    /\ lastOp = [op |-> "construct"]

\* useEffect(() => loadForDate(selectedDate), [selectedDate]) at the mount
LoadEffect ==
    /\ lastOp.op = "construct"
    /\ loadForDate(store, selectedDate)
    /\ lastOp' = [op |-> "load"]
    /\ catalogUnchanged
    /\ UNCHANGED <<now, tz, timers, weatherData, inFlight, mounted, listeners,
                   selectedDate, lastDay>>

NextLoad ==
    \/ LoadEffect
    \/ lastOp.op # "construct" /\ Tick(MaxTicks)
    \/ \E d \in SeqToSet(availableDates.list) :
            lastOp.op # "construct" /\ SelectDate(d)
    \/ lastOp.op # "construct" /\ ToggleEditMode
    \/ lastOp.op # "construct" /\ EntryCount(store, "walks") < MaxWalks
            /\ AddWalk(TRUE)

SpecLoad == InitLoad /\ [][NextLoad]_vars

----------------------------------------------------------------------------
(* Add handlers that overlap: each is suspended between its read and its *)
(* write                                                                  *)

\* an add handler suspended at `await handleAction(...)`: it has resolved
\* the document, read `current` and built its entry
addCall(n, f, current, entry) ==
    [call |-> "add", n |-> n, type |-> f, key |-> dateKeyOf(selectedDate),
     current |-> current, entry |-> entry]

addsInFlight == {c \in inFlight : c.call = "add"}

\* the array an add handler writes, had it read the sequence again at the
\* moment of the write
writeBackReread(current, stored, entry) == Append(stored, entry)

\* [...current, newEntry]: the array an add handler writes, built on the
\* sequence it read; `stored' is what the document holds by now
writeBack(current, stored, entry) == Append(current, entry)

\* an add handler up to its write: the button is pressed, the document is
\* resolved and read
addRead(n, f, entry) ==
    /\ controlsShown
    /\ TotalEntries(store) + Cardinality(addsInFlight) < MaxEntries
    /\ \A c \in addsInFlight : c.n # n
    /\ inFlight' = inFlight \cup {addCall(n, f, currentOf(f), entry)}
    /\ abandon(getDocRefForDate(store, selectedDate))
    /\ lastOp' = [op |-> "addRead", type |-> f]
    /\ UNCHANGED <<now, tz, timers, weatherData, mounted, listeners,
                   selectedDate, lastDay>>

\* addWalk up to its write
AddWalkRead(n) == addRead(n, "walks", [time |-> now])

\* addMeal up to its write, weight w typed into the prompt
AddMealRead(n, w) == addRead(n, "meals", [time |-> now, weight |-> w])

\* a suspended add handler goes on: handleAction writes its array and
\* refreshes
AddWrite ==
    \E c \in addsInFlight :
        LET stored == fieldOf(store, c.key, c.type)
            written == writeBack(c.current, stored, c.entry)
        IN  /\ handleAction(store,
                    (c.type :> IF c.type = "walks" THEN sortByTime(written)
                               ELSE written), TRUE, TRUE)
            /\ inFlight' = inFlight \ {c}
            /\ lastOp' = [op |-> "addWrite", type |-> c.type, key |-> c.key,
                          current |-> c.current, entry |-> c.entry,
                          stored |-> stored]
            /\ UNCHANGED <<now, tz, timers, weatherData, mounted, listeners,
                           selectedDate, lastDay>>

\* The add buttons of today's log pressed again before the handlers of the
\* earlier presses have written, within one day.
NextOverlap ==
    \/ Tick(MaxEntryTicks)
    \/ \E n \in 1..MaxEntries : AddWalkRead(n)
    \/ \E n \in 1..MaxEntries, w \in AddedWeights : AddMealRead(n, w)
    \/ AddWrite

SpecOverlap == Init /\ [][NextOverlap]_vars

----------------------------------------------------------------------------
(* addWalk, the selection and loadForDate, await by await *)

\* Writes a run may hold in flight at once while the awaits are followed.
MaxPending == 1

\* a handler suspended in handleAction at `await updateDoc(docRef, updateData)`
writeCall(date, f, written) ==
    [call |-> "write", date |-> date, type |-> f, written |-> written]

\* loadForDate(date) suspended at `await getDoc(...)`, the store having
\* answered with what document it held
readCall(date, s) ==
    [call |-> "read", date |-> date, found |-> exists(s, loadKeyOf(date)),
     view |-> loadView(s, date)]

\* loadForDate(date) up to its await: setEditMode(false), setIsHistoryMode
loadStarts(date) ==
    /\ editMode' = FALSE
    /\ isHistoryMode' = (toDateString(date) # todayStr)

\* addWalk up to the updateDoc of handleAction: the document is resolved
\* and read, the array is built
AddWalkStarts ==
    /\ controlsShown
    /\ EntryCount(store, "walks") < MaxWalks
    /\ Cardinality({c \in inFlight : c.call = "write"}) < MaxPending
    /\ store' = getDocRefForDate(store, selectedDate)
    /\ inFlight' = inFlight \cup
            {writeCall(selectedDate, "walks",
                 sortByTime(Append(currentOf("walks"), [time |-> now])))}
    /\ lastOp' = [op |-> "addWalkStarts"]
    /\ catalogUnchanged
    /\ UNCHANGED <<now, tz, timers, weatherData, mounted, listeners,
                   selectedDate, isHistoryMode, editMode, walks, meals,
                   snacks, lastDay>>

\* updateDoc has written: the listener on 'main' receives the snapshot, and
\* handleAction goes on with loadHistoryDates(true) for a date other than
\* today and with refresh(), both not awaited; the date is the one of the
\* render the handler was created in
WriteDone ==
    \E c \in inFlight :
        /\ c.call = "write"
        /\ exists(store, dateKeyOf(c.date))
        /\ store' = updateDoc(store, dateKeyOf(c.date), (c.type :> c.written))
        /\ onSnapshot(store,
                      updateDoc(store, dateKeyOf(c.date), (c.type :> c.written)))
        /\ loadStarts(c.date)
        /\ inFlight' = ((inFlight \ {c}) \cup {loadCall(c.date)}) \cup
                (IF toDateString(c.date) # todayStr
                 THEN {catalogCall("add")} ELSE {})
        /\ lastOp' = [op |-> "writeDone", date |-> c.date]
        /\ catalogUnchanged
        /\ UNCHANGED <<now, tz, timers, weatherData, mounted, listeners,
                       selectedDate, lastDay>>

\* the store answers the getDoc of a loadForDate in flight
GetDocAnswered ==
    \E c \in inFlight :
        /\ c.call = "load"
        /\ inFlight' = (inFlight \ {c}) \cup {readCall(c.date, store)}
        /\ lastOp' = [op |-> "getDocAnswered"]
        /\ catalogUnchanged
        /\ UNCHANGED <<now, tz, timers, weatherData, mounted, listeners, store,
                       selectedDate, isHistoryMode, editMode, walks, meals,
                       snacks, lastDay>>

\* loadForDate goes on after its await: the three setters, and the setDoc
\* of 'main' when today's document was not found
LoadResponds ==
    \E c \in inFlight :
        /\ c.call = "read"
        /\ walks' = c.view.walks
        /\ meals' = c.view.meals
        /\ snacks' = c.view.snacks
        /\ store' = IF toDateString(c.date) = todayStr /\ ~c.found
                    THEN setDoc(store, mainKey, EmptyDoc) ELSE store
        /\ inFlight' = inFlight \ {c}
        /\ lastOp' = [op |-> "loadResponds", date |-> c.date]
        /\ catalogUnchanged
        /\ UNCHANGED <<now, tz, timers, weatherData, mounted, listeners,
                       selectedDate, isHistoryMode, editMode, lastDay>>

\* What another client writes to 'main'.
RemoteLogs ==
    {EmptyDoc, [walks |-> <<SeedWalk>>, meals |-> <<SeedMeal>>, snacks |-> <<>>]}

\* Today's log with its listener: a walk is added when nothing is in
\* flight, another client writes 'main', and the refresh of the add is
\* answered and delivered when the network lets it.
NextSync ==
    \/ inFlight = {} /\ AddWalkStarts
    \/ WriteDone
    \/ GetDocAnswered
    \/ LoadResponds
    \/ \E data \in RemoteLogs : RemoteWrite(data)

SpecSync == Init /\ [][NextSync]_vars

----------------------------------------------------------------------------
(* The catalog built from stored keys, and the dates picked from it *)

\* The collection holds dated documents when the dashboard is mounted; the
\* user picks dates from the catalog and adds walks to them.
NextRoundTrip ==
    \/ \E d \in SeqToSet(availableDates.list) : SelectDate(d)
    \/ ToggleEditMode
    \/ AddWalk(TRUE)

SpecRoundTrip == InitArchive /\ [][NextRoundTrip]_vars

----------------------------------------------------------------------------
(* Selections while loads and writes are in flight *)

\* A click on catalog entry d: setSelectedDate(new Date(d)); the effect
\* on selectedDate starts loadForDate, which runs up to its await.
SelectStarts(d) ==
    /\ ~availableDates.isNull
    /\ d \in SeqToSet(availableDates.list)
    /\ d >= StartDay - MaxBack
    /\ selectedDate' = parseDateString(d)
    /\ loadStarts(parseDateString(d))
    /\ inFlight' = inFlight \cup {loadCall(parseDateString(d))}
    /\ lastOp' = [op |-> "selectStarts"]
    /\ catalogUnchanged
    /\ UNCHANGED <<now, tz, timers, weatherData, mounted, store, walks, meals,
                   snacks, lastDay>>
    /\ liveSync

\* The user moves between today and yesterday while the loads started
\* earlier are still answered, and adds a walk when nothing is in flight;
\* its write and its refresh are answered while the user moves on.
NextSelect ==
    \/ \E d \in {todayStr, yesterdayStr} : SelectStarts(d)
    \/ ToggleEditMode
    \/ inFlight = {} /\ AddWalkStarts
    \/ WriteDone
    \/ GetDocAnswered
    \/ LoadResponds
    \/ CatalogRun

SpecSelect == InitRunning /\ [][NextSelect]_vars

----------------------------------------------------------------------------
(* archivePreviousDay, await by await, with walks added meanwhile *)

\* archivePreviousDay suspended after it has read 'main' and found no
\* document of the ended date: mainData is what it will copy
archivingCall(previousDay, mainData, copied) ==
    [call |-> "archiving", previousDay |-> previousDay, mainData |-> mainData,
     copied |-> copied]

\* archivePreviousDay up to its setDoc: getDoc of 'main', the test of its
\* entries and of the ended date's document
ArchiveReads ==
    \E c \in inFlight :
        /\ c.call = "archive"
        /\ inFlight' = (inFlight \ {c}) \cup
                (IF archives(store, c.previousDay)
                 THEN {archivingCall(c.previousDay, store[mainKey], FALSE)}
                 ELSE {})
        /\ lastOp' = [op |-> "archiveReads"]
        /\ catalogUnchanged
        /\ UNCHANGED <<now, tz, timers, weatherData, mounted, listeners, store,
                       selectedDate, isHistoryMode, editMode, walks, meals,
                       snacks, lastDay>>

\* await setDoc(previousDocRef, mainData)
ArchiveCopies ==
    \E c \in inFlight :
        /\ c.call = "archiving"
        /\ ~c.copied
        /\ store' = setDoc(store, toISODate(c.previousDay), c.mainData)
        /\ inFlight' = (inFlight \ {c}) \cup
                {archivingCall(c.previousDay, c.mainData, TRUE)}
        /\ lastOp' = [op |-> "archiveCopies"]
        /\ catalogUnchanged
        /\ UNCHANGED <<now, tz, timers, weatherData, mounted, listeners,
                       selectedDate, isHistoryMode, editMode, walks, meals,
                       snacks, lastDay>>

\* await setDoc(mainDocRef, {walks: [], meals: [], snacks: []}), then
\* loadHistoryDates(true); the listener on 'main' receives the snapshot
ArchiveClears ==
    \E c \in inFlight :
        /\ c.call = "archiving"
        /\ c.copied
        /\ store' = setDoc(store, mainKey, EmptyDoc)
        /\ onSnapshot(store, setDoc(store, mainKey, EmptyDoc))
        /\ inFlight' = (inFlight \ {c}) \cup {catalogCall("archive")}
        /\ lastOp' = [op |-> "archiveClears", previousDay |-> c.previousDay]
        /\ catalogUnchanged
        /\ UNCHANGED <<now, tz, timers, weatherData, mounted, listeners,
                       selectedDate, isHistoryMode, editMode, lastDay>>

\* The day ends with entries in 'main'; the callback starts the archival
\* and the loads, and the user adds walks to today's log while they run.
NextInterleave ==
    \/ inFlight = {} /\ Tick(MaxTicks)
    \/ DayChanged
    \/ ArchiveReads
    \/ ArchiveCopies
    \/ ArchiveClears
    \/ toDateString(selectedDate) = todayStr /\ AddWalkStarts
    \/ WriteDone
    \/ GetDocAnswered
    \/ LoadResponds
    \/ CatalogRun

SpecInterleave == InitRunning /\ [][NextInterleave]_vars

----------------------------------------------------------------------------
(* getDocRefForDate, await by await, under addMeal *)

\* getDocRefForDate(date) of handler n suspended after `await getDoc(docRef)`:
\* found is snap.exists(); entry is the meal the handler will add
resolveCall(n, date, found, entry) ==
    [call |-> "resolve", n |-> n, date |-> date, found |-> found,
     entry |-> entry]

\* the handlers between their press and the end of their write
handlersInFlight == {c \in inFlight : c.call \in {"resolve", "write"}}

\* addMeal with weight w typed, up to the existence check of
\* getDocRefForDate
AddMealChecks(n, w) ==
    /\ controlsShown
    /\ TotalEntries(store) + Cardinality(handlersInFlight) < MaxEntries
    /\ \A c \in inFlight : c.call = "resolve" => c.n # n
    /\ inFlight' = inFlight \cup
            {resolveCall(n, selectedDate,
                         exists(store, dateKeyOf(selectedDate)),
                         [time |-> now, weight |-> w])}
    /\ lastOp' = [op |-> "addMealChecks"]
    /\ catalogUnchanged
    /\ UNCHANGED <<now, tz, timers, weatherData, mounted, listeners, store,
                   selectedDate, isHistoryMode, editMode, walks, meals,
                   snacks, lastDay>>

\* getDocRefForDate goes on: setDoc of the empty document when the check
\* found none and the key is not 'main'; addMeal then reads the meals and
\* handleAction, the document existing now, reaches its updateDoc
AddMealResolved ==
    \E c \in inFlight :
        /\ c.call = "resolve"
        /\ LET dateKey == dateKeyOf(c.date)
               s1 == IF ~c.found /\ dateKey # mainKey
                     THEN setDoc(store, dateKey, EmptyDoc) ELSE store
           IN  /\ store' = s1
               /\ inFlight' = (inFlight \ {c}) \cup
                    {writeCall(c.date, "meals",
                               Append(fieldOf(s1, dateKey, "meals"), c.entry))}
               /\ lastOp' = [op |-> "addMealResolved", key |-> dateKey,
                             found |-> c.found]
        /\ catalogUnchanged
        /\ UNCHANGED <<now, tz, timers, weatherData, mounted, listeners,
                       selectedDate, isHistoryMode, editMode, walks, meals,
                       snacks, lastDay>>

\* Meals are added to yesterday's log, which has no document yet, the add
\* button pressed again before the earlier handler is through.
NextLazy ==
    \/ inFlight = {} /\ SelectDate(yesterdayStr)
    \/ inFlight = {} /\ ToggleEditMode
    \/ \E n \in 1..MaxEntries, w \in AddedWeights : AddMealChecks(n, w)
    \/ AddMealResolved
    \/ WriteDone
    \/ LoadRun
    \/ CatalogRun

SpecLazy == Init /\ [][NextLazy]_vars

----------------------------------------------------------------------------
(* sortByTime over the walk lists a document can hold *)

\* Times of stored walks: two unparsable ones and two valid ones.
SortTimes == {0 - 2, 0 - 1, StartDay * HoursPerDay, StartDay * HoursPerDay + 1}

RECURSIVE SeqsUpTo(_, _)
SeqsUpTo(S, n) ==
    IF n = 0 THEN {<<>>}
    ELSE SeqsUpTo(S, n - 1)
            \cup {Append(s, x) : s \in {q \in SeqsUpTo(S, n - 1) : Len(q) = n - 1},
                                 x \in S}

\* The walk lists read from 'main', in any order.
SortInputs == SeqsUpTo({[time |-> x] : x \in SortTimes}, MaxSorted)

\* The component is constructed over a 'main' whose walks are in any order;
\* the load of the selected date has not run.
InitSort ==
    /\ tz \in TzOffsets
    /\ \E arr \in SortInputs :
            store = (mainKey :> [walks |-> arr, meals |-> <<>>, snacks |-> <<>>])
    /\ now = StartInstant
    /\ selectedDate = now
    /\ isHistoryMode = FALSE
    /\ editMode = FALSE
    /\ walks = <<>>
    /\ meals = <<>>
    /\ snacks = <<>>
    /\ lastDay = getDate(now)
    /\ listeners = <<mainKey>>
    /\ weatherData = NoWeather
    /\ inFlight = {}
    /\ mounted = TRUE
    /\ timers = TimersSet
    /\ CatalogLoaded
    /\ lastOp = [op |-> "construct"]

\* the load applies sortByTime to the walks it has read
NextSort == LoadEffect

SpecSort == InitSort /\ [][NextSort]_vars

----------------------------------------------------------------------------
(* Logs that hold entries the lists do not show *)

\* a meal stored without a weight and a snack stored without a quantity
\* (written by another client): the filters of loadForDate hide them
WeightlessMeal == [time |-> StartInstant - 2, weight |-> 0]
QuantitylessSnack == [time |-> StartInstant - 2, type |-> "bone", quantity |-> 0]

\* What 'main' holds when the dashboard is mounted.
HiddenLogs ==
    {[walks |-> <<>>, meals |-> ms, snacks |-> ss] :
        ms \in SeqsUpTo({WeightlessMeal, SeedMeal}, MaxEntries),
        ss \in {<<>>, <<QuantitylessSnack, SeedSnack>>}}

InitHidden ==
    /\ tz \in TzOffsets
    /\ \E data \in HiddenLogs : store = (mainKey :> data)
    /\ Mounted
    /\ CatalogLoaded

\* The edit and delete buttons of the displayed rows are pressed.
NextHidden ==
    \/ \E i \in 1..MaxEntries, w \in Weights : EditMeal(i, w)
    \/ \E i \in 1..MaxEntries, f \in Kinds : DeleteEntry(i, f)

SpecHidden == InitHidden /\ [][NextHidden]_vars

----------------------------------------------------------------------------
(* The weather card under successful and failed fetches *)

NextWeather ==
    \/ Tick(MaxTicks)
    \/ \E ok \in BOOLEAN, temp \in Temps, icon \in Icons :
            FetchWeather(ok, temp, icon)

SpecWeather == Init /\ [][NextWeather]_vars

----------------------------------------------------------------------------
(* Properties of the walk log, of the resolver and of isWalkDue (Spec) *)

Ascending(seq) ==
    \A i \in 1..(Len(seq) - 1) : seq[i].time <= seq[i + 1].time

AllValid(seq) == \A i \in DOMAIN seq : ~isNaN(seq[i].time)

\* C1: after any sequence of addWalk, addWalk(customTime) and editWalk on a
\* day whose walk times are all valid, the walks stored for that day, and
\* the walks read back by load, are in ascending order of time.
C1_WalksAscending ==
    /\ \A k \in DOMAIN store :
            AllValid(store[k].walks) => Ascending(store[k].walks)
    /\ AllValid(walks) => Ascending(walks)

\* The handlers that resolve the selected date through getDocRefForDate.
ResolvingOps ==
    {"addWalk", "addCustomWalk", "editWalk", "addMeal", "addSnack",
     "editMeal", "deleteEntry", "resetDay"}

\* C2: resolve(d) yields "main" exactly when d's local calendar date is the
\* current local calendar date, and otherwise the YYYY-MM-DD of d's own
\* (local) calendar date, for every offset of the local zone.
C2_ResolveUsesOwnDate ==
    lastOp.op \in ResolvingOps =>
        lastOp.key = IF toDateString(selectedDate) = todayStr
                     THEN mainKey
                     ELSE toDateString(selectedDate)

RECURSIVE MaxTime(_)
MaxTime(seq) ==
    IF Len(seq) = 1 THEN seq[1].time
    ELSE LET m == MaxTime(Tail(seq))
         IN  IF seq[1].time > m THEN seq[1].time ELSE m

\* C5: isWalkDue() is false whenever the selected date is not today, true
\* whenever today's log has no walk, and otherwise true exactly when three
\* hours or more have passed since the last walk.
C5_WalkDue ==
    IF toDateString(selectedDate) # todayStr THEN ~isWalkDue
    ELSE IF Len(fieldOf(store, mainKey, "walks")) = 0 THEN isWalkDue
    ELSE isWalkDue <=>
            (now - MaxTime(store[mainKey].walks) >= WalkIntervalHours)

----------------------------------------------------------------------------
(* Properties of edit, delete and reset (SpecEntries) *)

\* seq without its element at position i
RemoveAt(seq, i) ==
    [j \in 1..(Len(seq) - 1) |-> IF j < i THEN seq[j] ELSE seq[j + 1]]

\* documents other than k are the same before and after the step
OthersUnchanged(k) ==
    /\ DOMAIN store' \ {k} = DOMAIN store \ {k}
    /\ \A x \in DOMAIN store \ {k} : store'[x] = store[x]

\* C8: editMeal(i, w) with a valid weight w changes only the weight of the
\* meal at index i: the meals keep their length and order, entry i has
\* weight w and its original time, every other meal and the walks and
\* snacks of the document are unchanged.
C8_EditMealOnlyWeight ==
    [][(/\ lastOp'.op = "editMeal"
        /\ lastOp'.i \in DOMAIN fieldOf(store, lastOp'.key, "meals"))
       => LET k == lastOp'.key
              i == lastOp'.i
              before == store[k].meals
              after == store'[k].meals
          IN  /\ Len(after) = Len(before)
              /\ after[i].weight = lastOp'.input
              /\ after[i].time = before[i].time
              /\ \A j \in DOMAIN before \ {i} : after[j] = before[j]
              /\ store'[k].walks = store[k].walks
              /\ store'[k].snacks = store[k].snacks
              /\ OthersUnchanged(k)]_vars

\* C8 happens: the first of two meals, logged before the present hour, was
\* edited from 500 to 750.
C8_Witness ==
    /\ lastOp.op = "editMeal"
    /\ lastOp.i = 1
    /\ Len(store[lastOp.key].meals) = 2
    /\ store[lastOp.key].meals[1].weight = 750
    /\ store[lastOp.key].meals[2].weight = 500
    /\ store[lastOp.key].meals[1].time < now

\* C9: after a confirmed deleteEntry(index, kind) the stored sequence of
\* that kind is the previous one without the element at index, the others
\* kept in their order, and the two other sequences are unchanged.
C9_DeleteRemovesOne ==
    [][(/\ lastOp'.op = "deleteEntry"
        /\ lastOp'.i \in DOMAIN fieldOf(store, lastOp'.key, lastOp'.type))
       => LET k == lastOp'.key
              f == lastOp'.type
          IN  /\ store'[k][f] = RemoveAt(store[k][f], lastOp'.i)
              /\ \A g \in Kinds \ {f} : store'[k][g] = store[k][g]
              /\ OthersUnchanged(k)]_vars

\* C9 happens: the first of two entries was deleted and the second is left.
C9_Witness ==
    /\ lastOp.op = "deleteEntry"
    /\ lastOp.i = 1
    /\ Len(store[lastOp.key][lastOp.type]) = 1

\* C10: after a confirmed resetDay() the selected day's document exists
\* with three empty sequences, and no other document is changed.
C10_ResetEmpties ==
    [][lastOp'.op = "resetDay"
       => /\ exists(store', lastOp'.key)
          /\ store'[lastOp'.key] = EmptyDoc
          /\ OthersUnchanged(lastOp'.key)]_vars

\* C10 happens: a day was reset while another document holds entries.
C10_Witness ==
    /\ lastOp.op = "resetDay"
    /\ store[lastOp.key] = EmptyDoc
    /\ \E k \in DOMAIN store \ {lastOp.key} : hasEntries(store[k])

----------------------------------------------------------------------------
(* Properties of the confirmations and prompts (SpecPrompts) *)

viewUnchanged == walks' = walks /\ meals' = meals /\ snacks' = snacks

\* C11: when the user declines the confirmation of deleteEntry or of
\* resetDay, every document and the displayed walks, meals and snacks are
\* left as they were.
C11_DeclinedChangesNothing ==
    [][lastOp'.op \in {"deleteEntryDeclined", "resetDayDeclined"}
       => (store' = store /\ viewUnchanged)]_vars

\* C11 happens: the deletion of a stored entry was declined.
C11_Witness ==
    /\ lastOp.op = "deleteEntryDeclined"
    /\ TotalEntries(store) > 0
    /\ lastOp.i \in DOMAIN shown(lastOp.type)

\* the texts the claim calls invalid for a weight or a quantity: a
\* cancelled prompt, a text that is no number, a number that is not positive
BadNumbers == {PromptNull, "", "abc", "0", "-5"}

\* the step's inputs are invalid in the claim's sense
InvalidInputs(op, inputs) ==
    CASE op = "addMeal" -> inputs[1] \in BadNumbers
      [] op = "addCustomMeal" ->
            inputs[1] = PromptNull \/ inputs[2] \in BadNumbers
      [] op = "addSnack" ->
            inputs[1] \in {PromptNull, ""} \/ inputs[2] \in BadNumbers
      [] op = "editMeal" -> inputs[1] \in BadNumbers
      [] op = "editSnack" -> inputs[1] \in {PromptNull, ",3", "bone,0"}
      [] OTHER -> FALSE

----------------------------------------------------------------------------
(* Properties of the live listener (SpecListener) *)

----------------------------------------------------------------------------
(* Properties of the weather card (SpecWeather) *)

\* C15: a failed weather fetch that follows a successful one leaves the
\* last good reading in place; a failed fetch with no earlier success puts
\* the weather into an error state that is neither "not yet loaded" nor a
\* good reading.
C15_FailureKeepsReading ==
    [][(lastOp'.op = "fetchWeather" /\ ~lastOp'.ok)
       => IF weatherData.kind = "reading"
          THEN weatherData' = weatherData
          ELSE weatherData'.kind \notin {"null", "reading"}]_vars

----------------------------------------------------------------------------
(* Properties of the archival step (SpecArchive) *)

\* C3: when the local date advances from D to D+1 while 'main' holds an
\* entry and no document exists for D, the archival step creates the
\* document keyed by the ended date D with the walks, meals and snacks
\* 'main' had, and 'main' is left with three empty sequences.
C3_ArchivesUnderEndedDate ==
    [][(/\ lastOp'.op = "rollover"
        /\ exists(store, mainKey)
        /\ hasEntries(store[mainKey])
        /\ ~exists(store, yesterdayStr))
       => /\ exists(store', yesterdayStr)
          /\ store'[yesterdayStr] = store[mainKey]
          /\ exists(store', mainKey)
          /\ store'[mainKey] = EmptyDoc]_vars

----------------------------------------------------------------------------
(* Properties of the history catalog (SpecCatalog) *)

\* C6: after a reset load followed by any number of further page loads the
\* catalog holds no date twice and is in strictly descending date order.
C6_CatalogStrictlyDescending ==
    \A i \in 1..(Len(availableDates.list) - 1) :
        availableDates.list[i] > availableDates.list[i + 1]

\* C6 happens: a further page was added to a catalog of more than a page.
C6_Witness ==
    /\ lastOp.op = "loadHistoryDates"
    /\ ~lastOp.reset
    /\ lastOp.ok
    /\ lastVisibleDate # NullKey
    /\ Len(availableDates.list) > historyLimit + 2

\* C7: after every completed load of the catalog that succeeded, or that
\* failed as the very first load, the catalog holds today's date and
\* yesterday's date.
C7_TodayAndYesterdayListed ==
    (lastOp.op = "loadHistoryDates" /\ (lastOp.ok \/ lastOp.first))
        => /\ ~availableDates.isNull
           /\ todayStr \in SeqToSet(availableDates.list)
           /\ yesterdayStr \in SeqToSet(availableDates.list)

\* C7 happens: a load succeeded on a collection without a dated document.
C7_Witness ==
    /\ lastOp.op = "loadHistoryDates"
    /\ lastOp.ok
    /\ DOMAIN store = {mainKey}
    /\ availableDates.list = <<todayStr, yesterdayStr>>

\* C14: when the catalog query fails, the catalog becomes exactly today
\* and yesterday if none was ever loaded and is left untouched otherwise;
\* the cursor is left untouched and "has more" becomes false.
C14_QueryFailure ==
    [][(lastOp'.op = "loadHistoryDates" /\ ~lastOp'.ok)
       => /\ availableDates' =
                IF availableDates.isNull
                THEN [isNull |-> FALSE, list |-> <<todayStr, yesterdayStr>>]
                ELSE availableDates
          /\ lastVisibleDate' = lastVisibleDate
          /\ hasMoreHistory' = FALSE]_vars

\* C14 happens: the query for a further page failed on a loaded catalog.
C14_Witness ==
    /\ lastOp.op = "loadHistoryDates"
    /\ ~lastOp.ok
    /\ ~lastOp.first
    /\ ~lastOp.reset
    /\ Len(availableDates.list) > 2
    /\ lastVisibleDate # NullKey
    /\ ~hasMoreHistory

----------------------------------------------------------------------------
(* Properties of the resolver on the stores the handlers produce
   (SpecEntries) *)

\* the dates a handler can be asked to resolve: the selected date, the
\* present instant and the dates of the catalog
ResolveDates ==
    {selectedDate, now}
        \cup {parseDateString(d) : d \in SeqToSet(availableDates.list)}

\* C16: resolve(d) for a date other than today creates an empty document
\* only when none exists; when the document exists - right after a first
\* resolve, or later with entries written - resolve(d) leaves the store as
\* it is.
C16_ResolveCreatesOnce ==
    \A d \in ResolveDates :
        LET k == dateKeyOf(d)
            s1 == getDocRefForDate(store, d)
        IN  /\ getDocRefForDate(s1, d) = s1
            /\ exists(store, k) => s1 = store
            /\ (~exists(store, k) /\ k # mainKey)
                    => /\ DOMAIN s1 = DOMAIN store \cup {k}
                       /\ s1[k] = EmptyDoc
                       /\ \A x \in DOMAIN store : s1[x] = store[x]

\* C16 happens: a dated document was created by a first write and written
\* again, so it was resolved with entries in it.
C16_Witness ==
    /\ lastOp.op \in {"addMeal", "addSnack", "addWalk"}
    /\ lastOp.key # mainKey
    /\ exists(store, lastOp.key)
    /\ Len(store[lastOp.key].walks) + Len(store[lastOp.key].meals)
         + Len(store[lastOp.key].snacks) = 2

----------------------------------------------------------------------------
(* Properties of the loads (SpecLoad) *)

viewEmpty == walks = <<>> /\ meals = <<>> /\ snacks = <<>>

\* C17: a load of a date whose document is absent shows three empty
\* lists; it persists an empty 'main' when the date is today, and when the
\* date is not today it creates no document - viewing never brings a
\* dated document into existence.
C17_LoadOfAbsentDocument ==
    [][lastOp'.op \in {"load", "select"}
       => /\ ~exists(store, loadKeyOf(selectedDate'))
                => /\ viewEmpty'
                   /\ store' = IF toDateString(selectedDate') = todayStr
                               THEN setDoc(store, mainKey, EmptyDoc)
                               ELSE store
          /\ toDateString(selectedDate') # todayStr => store' = store]_vars

\* C17 happens: a date other than today without a document is viewed.
C17_Witness ==
    /\ lastOp.op = "select"
    /\ toDateString(selectedDate) # todayStr
    /\ ~exists(store, toISODate(selectedDate))
    /\ viewEmpty
    /\ hasEntries(store[mainKey])

----------------------------------------------------------------------------
(* Properties of the history flag and of the catalog refresh (Spec) *)

\* C18: in every state in which no load is in flight, the history-mode
\* flag is true if and only if the selected date is not the current
\* calendar date, also after the calendar date has advanced and after the
\* refresh that follows a mutation.
C18_HistoryModeIffNotToday ==
    inFlight = {}
        => (isHistoryMode <=> toDateString(selectedDate) # todayStr)

\* C19: whenever an add, edit, delete or reset newly creates the document
\* of a date other than today, a reset reload of the catalog is part of
\* the operation: afterwards the catalog is the one a reset load yields
\* on the new collection, and it contains the selected date.
C19_NewDocumentReloadsCatalog ==
    [][(/\ lastOp'.op \in ResolvingOps
        /\ lastOp'.key # mainKey
        /\ ~exists(store, lastOp'.key)
        /\ exists(store', lastOp'.key))
       => /\ availableDates' =
                [isNull |-> FALSE,
                 list |-> catalogOf(queryKeys(store', TRUE, NullKey), TRUE)]
          /\ toDateString(selectedDate) \in SeqToSet(availableDates'.list)]_vars

----------------------------------------------------------------------------
(* Properties of the day-boundary cycle (SpecCycle) *)

\* C20: in each day-boundary cycle the reset refresh of the catalog and
\* the reload of the new today are started only when the archival step
\* has completed its writes; when the cycle has ended the catalog contains
\* the ended date, the lists show the contents of 'main', the selection
\* is the new today and history mode is off.
C20_ArchiveThenRefresh ==
    [][/\ \A c \in inFlight' \ inFlight :
            c.call \in {"load", "catalog"} => ~archivePending(inFlight')
       /\ (inFlight # {} /\ inFlight' = {})
            => /\ yesterdayStr \in SeqToSet(availableDates'.list)
               /\ walks' = viewOf(store'[mainKey]).walks
               /\ meals' = viewOf(store'[mainKey]).meals
               /\ snacks' = viewOf(store'[mainKey]).snacks
               /\ toDateString(selectedDate') = todayStr
               /\ ~isHistoryMode']_vars

----------------------------------------------------------------------------
(* Properties of the dashboard left running (SpecRunning) *)

\* C21: if the local calendar date advances while the dashboard is running,
\* with the clock interval firing and the component rendering as usual (no
\* dialog keeps the thread), the day-change check eventually detects the
\* change and starts the archival of 'main' for the ended date.
C21_RolloverDetected ==
    [](lastOp.op # "blocked")
        => ((mounted /\ getDate(now) # StartDay)
                ~> (\E c \in inFlight : c = archiveCall(minusOneDay(now))))

----------------------------------------------------------------------------
(* Properties of the order of meals and snacks (SpecOrder) *)

\* the entries of seq hold the times of old, place by place, and all but
\* entry i are the entries of old
SamePlaces(old, seq, i) ==
    /\ Len(seq) = Len(old)
    /\ \A j \in DOMAIN old :
            /\ seq[j].time = old[j].time
            /\ j # i => seq[j] = old[j]

\* C22: meals and snacks are kept in insertion order.  Every add (addMeal,
\* addCustomMeal, addSnack, addCustomSnack) leaves the entries stored
\* before in place and puts the new entry last whatever its time; editMeal
\* and editSnack leave every entry at its place; deleteEntry removes entry i
\* and leaves the others in their order.
C22_InsertionOrder ==
    [][LET k == dateKeyOf(selectedDate)
           oldM == fieldOf(store, k, "meals")
           oldS == fieldOf(store, k, "snacks")
           newM == fieldOf(store', k, "meals")
           newS == fieldOf(store', k, "snacks")
       IN  /\ lastOp'.op \in {"addMeal", "addCustomMeal"}
                => /\ Len(newM) = Len(oldM) + 1
                   /\ SubSeq(newM, 1, Len(oldM)) = oldM
                   /\ newS = oldS
           /\ lastOp'.op \in {"addSnack", "addCustomSnack"}
                => /\ Len(newS) = Len(oldS) + 1
                   /\ SubSeq(newS, 1, Len(oldS)) = oldS
                   /\ newM = oldM
           /\ lastOp'.op = "editMeal"
                => SamePlaces(oldM, newM, lastOp'.i) /\ newS = oldS
           /\ lastOp'.op = "editSnack"
                => SamePlaces(oldS, newS, lastOp'.i) /\ newM = oldM
           /\ lastOp'.op = "deleteEntry" /\ lastOp'.type = "meals"
                => newM = RemoveAt(oldM, lastOp'.i) /\ newS = oldS
           /\ lastOp'.op = "deleteEntry" /\ lastOp'.type = "snacks"
                => newS = RemoveAt(oldS, lastOp'.i) /\ newM = oldM]_vars

\* A custom meal with a time earlier than the meal before it is stored
\* last, as the third meal.
C22_Witness ==
    /\ lastOp.op = "addCustomMeal"
    /\ Len(store[mainKey].meals) = MaxOrdered
    /\ store[mainKey].meals[MaxOrdered].time
            < store[mainKey].meals[MaxOrdered - 1].time

----------------------------------------------------------------------------
(* Properties of the archival call of the day-change cycle (SpecCycle) *)

\* C23: if a document for the ended date exists already, or 'main' is
\* absent or holds no entry, the archival step changes nothing: 'main', the
\* ended date's document and every other document stay as they are.
C23_ArchivalNoOp ==
    [][(/\ lastOp'.op = "archiveRun"
        /\ \/ exists(store, yesterdayStr)
           \/ ~exists(store, mainKey)
           \/ ~hasEntries(store[mainKey]))
       => store' = store]_vars

----------------------------------------------------------------------------
(* Properties of the cycle under a late store (SpecLatency) *)

archivesInFlight == {c \in inFlight : c.call = "archive"}

\* C24: whatever the latency of the document store, at most one archival
\* is in flight at any time, and at most one archival copy is made per
\* change of the calendar date: a copy is made under a key that held no
\* document, by the one archival of that change.
C24_OneArchivalInFlight ==
    [](Cardinality(archivesInFlight) <= 1)
    /\ [][(lastOp'.op = "archiveRun" /\ lastOp'.copied)
            => /\ ~exists(store, toISODate(lastOp'.previousDay))
               /\ archiveCall(lastOp'.previousDay) \notin inFlight']_vars

----------------------------------------------------------------------------
(* Properties of the paging of the catalog (SpecCatalog) *)

\* C25: after every successful page load the cursor is the last raw key
\* the query returned for that page, before the YYYY-MM-DD filter, also when
\* that key does not match the pattern or no key of the page matches.
C25_CursorIsLastRawKey ==
    [][(lastOp'.op = "loadHistoryDates" /\ lastOp'.ok)
       => LET page == queryKeys(store, lastOp'.reset, lastVisibleDate)
          IN  page # <<>> => lastVisibleDate' = page[Len(page)]]_vars

----------------------------------------------------------------------------
(* Properties of the catalog while the dashboard renders (SpecPaging) *)

\* the calendar date a YYYY-MM-DD key names
dateOfKey(k) == k

\* C26: a load of a further page (reset = false) keeps every date the
\* catalog holds and adds the dates of the next page of keys, those after
\* the cursor; "has more" is true exactly when the page held at least 15
\* raw keys; so the catalog only grows while pages are added, and it is not
\* reduced back to the first page unless a reset load was asked for.
C26_PagesAccumulate ==
    [][/\ (lastOp'.op = "loadHistoryDates" /\ ~lastOp'.reset /\ lastOp'.ok)
            => LET page == queryKeys(store, FALSE, lastVisibleDate)
               IN  /\ SeqToSet(availableDates.list)
                        \subseteq SeqToSet(availableDates'.list)
                   /\ \A j \in DOMAIN page :
                        /\ matchesDateKey(page[j])
                                => dateOfKey(page[j])
                                        \in SeqToSet(availableDates'.list)
                        /\ lastVisibleDate # NullKey => page[j] < lastVisibleDate
                   /\ hasMoreHistory' = (Len(page) >= historyLimit)
       /\ (~availableDates.isNull
            /\ ~(lastOp'.op = "loadHistoryDates" /\ lastOp'.reset))
            => SeqToSet(availableDates.list)
                    \subseteq SeqToSet(availableDates'.list)]_vars

----------------------------------------------------------------------------
(* Properties of the stored entries under typed inputs (SpecTyped) *)

PositiveInt(n) == n \in Nat /\ n > 0

WellFormed(data) ==
    /\ \A i \in DOMAIN data.walks : ~isNaN(data.walks[i].time)
    /\ \A i \in DOMAIN data.meals :
            /\ ~isNaN(data.meals[i].time)
            /\ PositiveInt(data.meals[i].weight)
    /\ \A i \in DOMAIN data.snacks :
            /\ ~isNaN(data.snacks[i].time)
            /\ data.snacks[i].type # ""
            /\ PositiveInt(data.snacks[i].quantity)

\* C27: from a store whose entries are well-formed, after any sequence of
\* add, edit, delete, reset and archival operations every stored entry has
\* a parseable time, every stored meal a positive integer weight, every
\* stored snack a non-empty type and a positive integer quantity.
C27_EntriesWellFormed == \A k \in DOMAIN store : WellFormed(store[k])

\* C27 happens: a snack was added, rewritten by editSnack and archived by
\* the rollover.
C27_Witness ==
    /\ lastOp.op = "rollover"
    /\ \E k \in DOMAIN store \ {mainKey} :
            /\ Len(store[k].snacks) > 0
            /\ store[k].snacks[1].type = "bone"

----------------------------------------------------------------------------
(* Properties of sortByTime (SpecSort) *)

\* the sort key of the claim: the time, an unparsable time as the epoch
keyOf(e) == IF isNaN(e.time) THEN 0 ELSE e.time

\* out is arr in ascending order of keyOf, entries of equal key in the order
\* they have in arr
StableSortOf(out, arr) ==
    /\ Len(out) = Len(arr)
    /\ \E p \in [DOMAIN arr -> DOMAIN arr] :
            /\ \A i, j \in DOMAIN arr : i # j => p[i] # p[j]
            /\ \A i \in DOMAIN arr : out[i] = arr[p[i]]
            /\ \A i, j \in DOMAIN arr :
                    i < j => \/ keyOf(out[i]) < keyOf(out[j])
                             \/ keyOf(out[i]) = keyOf(out[j]) /\ p[i] < p[j]

\* C28: sortByTime returns a permutation of its input that is a stable
\* ascending sort by time with an unparsable time counted as the epoch:
\* the unparsable entries come first, the valid ones follow in ascending
\* order, entries of equal key keep their order.
C28_StableAscendingSort ==
    lastOp.op = "load" => StableSortOf(walks, store[mainKey].walks)

----------------------------------------------------------------------------
(* The stored logs against an abstract DayLog per calendar day (SpecEntries) *)

MutationOps ==
    {"addWalk", "addMeal", "addSnack", "editMeal", "deleteEntry", "resetDay"}

\* the document of the abstract DayLog the selected date stands for: 'main'
\* for today, the date's own calendar day otherwise
dayLogKey ==
    IF toDateString(selectedDate) = todayStr THEN mainKey
    ELSE toDateString(selectedDate)

\* the sequence an add operation extends
addedKind(op) ==
    IF op = "addWalk" THEN "walks" ELSE IF op = "addMeal" THEN "meals"
    ELSE "snacks"

\* after is before with one entry more, no entry of before lost or repeated
OneAdded(before, after) ==
    \E j \in DOMAIN after : RemoveAt(after, j) = before

\* the abstract DayLog `before' after operation op, compared with `after'
AppliedTo(op, before, after) ==
    IF op.op \in {"addWalk", "addMeal", "addSnack"}
    THEN /\ OneAdded(before[addedKind(op.op)], after[addedKind(op.op)])
         /\ \A g \in Kinds \ {addedKind(op.op)} : after[g] = before[g]
    ELSE IF op.op = "editMeal"
    THEN IF op.i \in DOMAIN before.meals
         THEN after = [before EXCEPT !.meals[op.i].weight = op.input]
         ELSE after = before
    ELSE IF op.op = "deleteEntry"
    THEN IF op.i \in DOMAIN before[op.type]
         THEN after = [before EXCEPT ![op.type] = RemoveAt(@, op.i)]
         ELSE after = before
    ELSE after = EmptyDoc

\* C29: with the mutations issued one at a time, every add, edit, delete and
\* reset changes the stored log as the same operation changes the abstract
\* DayLog of the selected calendar day: that day's document takes the
\* operation, and no document of another day gains or loses an entry.
C29_RefinesDayLog ==
    [][lastOp'.op \in MutationOps
       => /\ dayLogKey \in DOMAIN store'
          /\ OthersUnchanged(dayLogKey)
          /\ AppliedTo(lastOp',
                       IF dayLogKey \in DOMAIN store THEN store[dayLogKey]
                       ELSE EmptyDoc,
                       store'[dayLogKey])]_vars

----------------------------------------------------------------------------
(* Properties of overlapping add handlers (SpecOverlap) *)

\* the entries of seq as a set
EntriesOf(seq) == {seq[i] : i \in DOMAIN seq}

\* C30: nothing guards against overlapping writers: when an add handler
\* writes, the stored sequence becomes the one it built on the sequence it
\* had read, and what another handler of the same kind has written to the
\* document since that read is absent (the last writer wins).
C30_LastWriterWins ==
    [][lastOp'.op = "addWrite"
       => LET op == lastOp'
              after == store'[op.key][op.type]
              built == Append(op.current, op.entry)
          IN  /\ after = IF op.type = "walks" THEN sortByTime(built) ELSE built
              /\ \A e \in EntriesOf(op.stored) \ EntriesOf(op.current) :
                    e # op.entry => e \notin EntriesOf(after)]_vars

\* C30 happens: two addWalk handlers read the empty 'main' an hour apart,
\* the first wrote its walk, and the second has now written: the stored
\* walks hold the second walk alone.
C30_Witness ==
    /\ lastOp.op = "addWrite"
    /\ lastOp.type = "walks"
    /\ lastOp.current = <<>>
    /\ Len(lastOp.stored) = 1
    /\ lastOp.stored[1] # lastOp.entry
    /\ store[lastOp.key].walks = <<lastOp.entry>>
    /\ inFlight = {}

----------------------------------------------------------------------------
(* Properties of the live sync against late load responses (SpecSync) *)

\* C31: while the selected date is today, the displayed walks, meals and
\* snacks are those of the snapshot of 'main' delivered last (every write
\* of 'main' is delivered to the listener at once): no response of a load
\* or refresh that read 'main' before that snapshot puts older contents
\* back.
C31_ShowsLatestSnapshot ==
    (toDateString(selectedDate) = todayStr /\ listeners # <<>>)
        => /\ walks = viewOf(store[mainKey]).walks
           /\ meals = viewOf(store[mainKey]).meals
           /\ snacks = viewOf(store[mainKey]).snacks

----------------------------------------------------------------------------
(* Properties of the catalog entries against the keys (SpecRoundTrip) *)

\* the catalog entry loadHistoryDates makes of key k
entryOfKey(k) == toDateString(parseISODate(k))

\* C32: for every dated key K of the collection and every offset of the
\* local zone, a click on the catalog entry made from K loads the document
\* K, and a write on the date selected that way resolves to K.
C32_CatalogKeyRoundTrip ==
    [][lastOp'.op = "select"
       => \A k \in DOMAIN store \ {mainKey} :
            entryOfKey(k) = toDateString(selectedDate')
                => /\ loadKeyOf(selectedDate') = k
                   /\ dateKeyOf(selectedDate') = k
                   /\ walks' = viewOf(store[k]).walks]_vars

----------------------------------------------------------------------------
(* Properties of the display under overlapping loads (SpecSelect) *)

\* the loads, refreshes and writes not yet completed
loadsInFlight == {c \in inFlight : c.call \in {"load", "read", "write"}}

\* C33: once no load, refresh or write is in flight, the displayed walks,
\* meals and snacks and the history-mode flag are those of the document of
\* the selected date, whatever the order in which selections, mutations
\* and load responses took place.
C33_DisplayFollowsSelection ==
    loadsInFlight = {}
        => /\ walks = loadView(store, selectedDate).walks
           /\ meals = loadView(store, selectedDate).meals
           /\ snacks = loadView(store, selectedDate).snacks
           /\ isHistoryMode = (toDateString(selectedDate) # todayStr)

----------------------------------------------------------------------------
(* Properties of adds that interleave with the archival (SpecInterleave) *)

\* the dated documents of s
datedKeys(s) == DOMAIN s \ {mainKey}

\* C34: no entry is lost or carried into the wrong day when an add on
\* 'main' interleaves with the archival: what 'main' holds when the
\* archival clears it is in the dated document, an add keeps what 'main'
\* held, and after an add no walk of 'main' is in a dated document as well.
C34_NoEntryLostOrDoubled ==
    [][/\ lastOp'.op = "archiveClears"
            => \A f \in Kinds :
                 EntriesOf(store[mainKey][f]) \subseteq
                    EntriesOf(store'[toISODate(lastOp'.previousDay)][f])
       /\ (lastOp'.op = "writeDone" /\ dateKeyOf(lastOp'.date) = mainKey)
            => /\ \A f \in Kinds :
                    EntriesOf(store[mainKey][f]) \subseteq
                        EntriesOf(store'[mainKey][f])
               /\ \A k \in datedKeys(store') :
                    EntriesOf(store'[mainKey].walks)
                        \cap EntriesOf(store'[k].walks) = {}]_vars

----------------------------------------------------------------------------
(* Properties of the lazy creation of dated documents (SpecLazy) *)

\* C35: lazy creation never erases data: when getDocRefForDate goes on
\* after its existence check, a document that holds an entry by then is
\* left as it is, however the checks and creates of the handlers
\* interleave.
C35_CreateErasesNothing ==
    [][lastOp'.op = "addMealResolved"
       => \A k \in DOMAIN store :
            hasEntries(store[k]) => store'[k] = store[k]]_vars

----------------------------------------------------------------------------
(* Properties of edit and delete on logs with hidden entries (SpecHidden) *)

\* the filter of the displayed list of kind f
isShown(f, e) ==
    IF f = "meals" THEN hasWeight(e)
    ELSE IF f = "snacks" THEN hasQuantity(e) ELSE TRUE

\* the position in the stored sequence of the entry displayed at row i
storedIndexOf(seq, f, i) ==
    CHOOSE j \in DOMAIN seq :
        /\ isShown(f, seq[j])
        /\ Cardinality({x \in 1..j : isShown(f, seq[x])}) = i

\* C36: for any stored log, also one with meals without a weight or snacks
\* without a quantity, editMeal(i, w) and deleteEntry(i, kind) pressed on
\* the entry displayed at row i change or remove exactly that entry of the
\* stored sequence.
C36_ActsOnDisplayedEntry ==
    [][/\ lastOp'.op = "editMeal"
            => LET before == store[lastOp'.key].meals
                   j == storedIndexOf(before, "meals", lastOp'.i)
               IN  store'[lastOp'.key].meals
                      = [before EXCEPT ![j].weight = lastOp'.input]
       /\ lastOp'.op = "deleteEntry"
            => LET before == store[lastOp'.key][lastOp'.type]
                   j == storedIndexOf(before, lastOp'.type, lastOp'.i)
               IN  store'[lastOp'.key][lastOp'.type] = RemoveAt(before, j)]_vars

----------------------------------------------------------------------------
(* Properties of the catalog queries of the running dashboard (SpecRunning) *)

\* the steps after which a reset load of the catalog is due: a detected
\* day rollover and an archival that has copied
ResetLoadDue == {"dayChanged", "archiveRun"}

\* C37: while the dashboard runs with no user action and no store failure,
\* a reset load of the catalog is issued only on a detected day rollover
\* and after an archival, never because the component rendered again on a
\* clock tick.
C37_NoCatalogLoadOnRender ==
    [][(\E c \in inFlight' \ inFlight : c.call = "catalog")
       => lastOp'.op \in ResetLoadDue]_vars

----------------------------------------------------------------------------
(* Properties of the times of written walks (Spec) *)

\* C38: every walk that addWalk, addCustomWalk or editWalk writes into the
\* document of the selected date has a time on the calendar day of that
\* date, also when the date is a historical one.
C38_TimesOnSelectedDay ==
    [][lastOp'.op \in {"addWalk", "addCustomWalk", "editWalk"}
       => \A e \in EntriesOf(fieldOf(store', lastOp'.key, "walks"))
                    \ EntriesOf(fieldOf(store, lastOp'.key, "walks")) :
            toDateString(e.time) = toDateString(selectedDate)]_vars

----------------------------------------------------------------------------
(* Properties of 'main' after the day-boundary cycle (SpecCycle) *)

\* the entries of data logged on local day d
loggedOn(data, d) ==
    {e \in EntriesOf(data.walks) \cup EntriesOf(data.meals)
            \cup EntriesOf(data.snacks) : toDateString(e.time) = d}

\* C39: when a day-boundary cycle has completed, 'main' holds no entry
\* that was logged on the ended day, whatever the collection held before,
\* a document of the ended date included.
C39_MainHoldsNoEndedDayEntry ==
    [][(inFlight # {} /\ inFlight' = {} /\ exists(store', mainKey))
       => loggedOn(store'[mainKey], yesterdayStr) = {}]_vars

====
